---- MODULE Spec2Model ----
(***************************************************************************)
(* OctoGPT: a browser extension that extracts the user prompts of a chat   *)
(* page (parser), keeps them fresh under DOM mutation (content script) and *)
(* drives a navigable side panel (sidebar).                                *)
(*                                                                         *)
(* The module holds these state machines:                                  *)
(*   SpecTimer    - the content script's timers (debounce, throttle,       *)
(*                  streaming poll, navigation wait loops)                 *)
(*                  (SpecTimerLive adds the firing of due timers)          *)
(*   SpecWait     - the same timers on a page that stays loaded, with no   *)
(*                  response streaming, followed until a wait loop reaches *)
(*                  its maxWait (SpecWaitLive)                             *)
(*   SpecNav      - the sidebar's keyboard traversal and collapse-set      *)
(*   SpecCollapse - the collapse-set under clicks and prompt-list updates   *)
(*   SpecSync     - the first step of a traversal on a bounded page        *)
(*   SpecParse    - extraction passes of the parsers over bounded trees    *)
(*   SpecHeadings - the heading cascade on one response container          *)
(*   SpecBranch   - the branch classification of one prompt list           *)
(*   SpecBranchInfo - the version navigator of one turn                    *)
(*   SpecPanel    - the panel's pin / hover / resize state and its         *)
(*                  persisted settings (SpecPanelLive adds the firing of   *)
(*                  the hide timers as a fairness condition)               *)
(*   SpecContent  - the panel's content states (loading, new chat, list)   *)
(*                  and the prompt list it renders                         *)
(*   SpecScroll   - the reveals and frame loops of the main viewport       *)
(*   SpecBand     - the reveals in the panel's content box                 *)
(* The timers and the traversal have variables of their own; the parser's *)
(* machines, SpecSync, SpecScroll and SpecBand share tree (the input, the  *)
(* page) and out (the result, the history); the panel has panel and store *)
(* and, for the prompt list its render() works on, nav.                    *)
(***************************************************************************)
EXTENDS Integers, Sequences, FiniteSets, TLC

VARIABLES
    \* ---- content script (SpecTimer) ----
    now,          \* Date.now()
    pathname,     \* window.location.pathname
    dom,          \* what the content script's DOM queries answer
    octo,         \* the OctoGPT object and the sidebar's loading flags
    hist,         \* history: last notification, last timer callback run
    \* ---- sidebar navigation (SpecNav, SpecPanel, SpecContent) ----
    nav,          \* the prompt list, the collapse-set and the positions
    \* ---- parser (SpecParse) ----
    tree,         \* what the parser is handed: a document tree, a container,
                  \* a prompt list
    out,          \* the parser's results
    \* ---- sidebar panel (SpecPanel) ----
    panel,        \* the OctoGPTSidebar object, its DOM and the pointer
    store         \* chrome.storage.local

timerVars == <<now, pathname, dom, octo, hist>>
navVars   == <<nav>>
parseVars == <<tree, out>>
panelVars == <<panel, store>>
vars      == <<now, pathname, dom, octo, hist, nav, tree, out, panel, store>>

(***************************************************************************)
(*                      CONTENT SCRIPT: TIMERS                             *)
(***************************************************************************)

\* ---- program constants (OctoGPT.config and the wait loops) ----
debounceDelay         == 300
minUpdateInterval     == 500
streamingPollInterval == 800
contentMaxWait        == 2000
contentCheckInterval  == 100
promptsMaxWait        == 1500
promptsCheckInterval  == 200

\* ---- bounds of the model ----
TimeStep      == 100     \* granularity of the clock
StartTime     == 1000    \* clock value when the script loads
TimeSpan      == 1000    \* the clock is followed from StartTime for TimeSpan ms
MaxDomPrompts == 1       \* user turns the page may show
MaxNav        == 1       \* URL changes followed

Pathnames == {"/", "/c/a", "/c/b"}

\* A timer handle that is not armed (never set, fired, or cleared).
NoTimer == [due |-> -1, gen |-> -1]

Armed(t) == t.due >= 0

\* ChatGPTParser.getConversationId: pathname.match(/\/c\/([a-zA-Z0-9-]+)/)
getConversationId(p) ==
    IF p = "/c/a" THEN "a" ELSE IF p = "/c/b" THEN "b" ELSE "none"

\* OctoGPT.isNewChatUrl (ChatGPT branch): '/' or no /c/ segment
isNewChatUrl(p) == p = "/" \/ getConversationId(p) = "none"

\* OctoGPT.hasConversationContent / isStreaming: DOM queries
hasConversationContent == dom.hasContent
isStreaming == dom.streaming

\* parser.extractAllPrompts + formatPromptsForDisplay, as the number of prompts
extractedCount(p) == IF getConversationId(p) = "none" THEN 0 ELSE dom.prompts

\* OctoGPTSidebar.setLoadingState
setLoadingState(o, state) ==
    IF state # "null"
    THEN [o EXCEPT !.loadingState = state, !.isLoading = TRUE, !.isNewChat = FALSE]
    ELSE [o EXCEPT !.loadingState = "null"]

\* OctoGPTSidebar.setNewChat
setNewChatKeepLoading(o, isNew) ==
    IF isNew
    THEN [o EXCEPT !.isNewChat = TRUE]
    ELSE [o EXCEPT !.isNewChat = FALSE, !.isLoading = TRUE, !.loadingState = "waiting"]

setNewChat(o, isNew) ==
    IF isNew
    THEN [o EXCEPT !.isNewChat = TRUE, !.isLoading = FALSE, !.loadingState = "null"]
    ELSE [o EXCEPT !.isNewChat = FALSE, !.isLoading = TRUE, !.loadingState = "waiting"]

\* OctoGPTSidebar.updatePrompts, its effect on the loading flags
updatePromptsFlags(o, n) ==
    LET a == IF o.sidebarPrompts > 0 /\ n = 0
             THEN [o EXCEPT !.isLoading = TRUE, !.loadingState = "waiting",
                            !.isNewChat = FALSE]
             ELSE o
        b == IF n > 0
             THEN [a EXCEPT !.isLoading = FALSE, !.loadingState = "null",
                            !.isNewChat = FALSE]
             ELSE a
    IN [b EXCEPT !.sidebarPrompts = n]

\* OctoGPT.scheduleStreamingPoll
scheduleStreamingPoll(o, gen) ==
    [o EXCEPT !.streamingPollTimer =
        IF isStreaming THEN [due |-> now + streamingPollInterval, gen |-> gen]
        ELSE NoTimer]

\* The throttle test at the head of extractAndLog
Throttled(o) == now - o.lastUpdateTime < minUpdateInterval

\* OctoGPT.extractAndLog at location p; gen tags the poll timer it may arm.
\* extractedFor keeps the location the prompts held were extracted at.
extractAndLog(o, p, gen) ==
    IF Throttled(o) THEN o
    ELSE
      LET o1 == [o EXCEPT !.lastUpdateTime = now, !.extractedFor = p]
          o2 == IF o1.isNewChat /\ hasConversationContent
                THEN setLoadingState(o1, "waiting") ELSE o1
          o3 == IF o2.isLoading /\ hasConversationContent
                THEN setLoadingState(o2, "parsing") ELSE o2
          n  == extractedCount(p)
          o4 == updatePromptsFlags([o3 EXCEPT !.prompts = n], n)
          o5 == IF n > 0 THEN setLoadingState(o4, "null")
                ELSE IF isNewChatUrl(p) THEN setNewChat(o4, TRUE)
                ELSE o4
      IN scheduleStreamingPoll(o5, gen)

\* OctoGPT.waitForPromptsOrNewChat: arms the first check
waitForPromptsOrNewChat(o, gen) ==
    [o EXCEPT !.waitLoops = @ \cup
        {[kind |-> "prompts", due |-> now + promptsCheckInterval,
          start |-> now, gen |-> gen]}]

\* the check closure that declares a new chat when it reaches maxWait
promptsCheckNewChat(o, p, w) ==
    LET o1 == extractAndLog([o EXCEPT !.lastUpdateTime = 0], p, w.gen)
    IN IF o1.prompts > 0 THEN o1
       ELSE IF now - w.start > promptsMaxWait THEN setNewChat(o1, TRUE)
       ELSE [o1 EXCEPT !.waitLoops = @ \cup
               {[w EXCEPT !.due = now + promptsCheckInterval]}]

\* the check closure of waitForPromptsOrNewChat, run for loop w
promptsCheck(o, p, w) ==
    LET o1 == extractAndLog([o EXCEPT !.lastUpdateTime = 0], p, w.gen)
    IN IF o1.prompts > 0 THEN o1
       ELSE IF now - w.start > promptsMaxWait THEN setLoadingState(o1, "null")
       ELSE [o1 EXCEPT !.waitLoops = @ \cup
               {[w EXCEPT !.due = now + promptsCheckInterval]}]

\* the check closure of waitForContentAndExtract, run for a loop started at
\* start under generation gen
contentCheck(o, p, start, gen) ==
    IF hasConversationContent
    THEN LET o1 == extractAndLog(o, p, gen)
         IN IF o1.prompts = 0 THEN waitForPromptsOrNewChat(o1, gen) ELSE o1
    ELSE IF now - start > contentMaxWait THEN setLoadingState(o, "null")
    ELSE [o EXCEPT !.waitLoops = @ \cup
            {[kind |-> "content", due |-> now + contentCheckInterval,
              start |-> start, gen |-> gen]}]

\* OctoGPT.waitForContentAndExtract: the first check runs synchronously
waitForContentAndExtract(o, p, gen) == contentCheck(o, p, now, gen)

\* OctoGPT.debouncedUpdate
debouncedUpdate(o, gen) ==
    [o EXCEPT !.debounceTimer = [due |-> now + debounceDelay, gen |-> gen]]

\* The 'if (this.sidebar)' tests of the content script: after destroy() has
\* set this.sidebar to null, what a handler does to the sidebar is skipped.
\* o is the object before the handler, r what the handler makes of it.
ifSidebar(o, r) ==
    IF ~o.sidebar
    THEN [r EXCEPT !.isLoading = o.isLoading, !.loadingState = o.loadingState,
                   !.isNewChat = o.isNewChat, !.sidebarPrompts = o.sidebarPrompts]
    ELSE r

\* ---- timers that are due ----
DueLoops == {w \in octo.waitLoops : w.due <= now}

TimerDue ==
    \/ Armed(octo.debounceTimer) /\ octo.debounceTimer.due <= now
    \/ Armed(octo.streamingPollTimer) /\ octo.streamingPollTimer.due <= now
    \/ DueLoops # {}

\* What the most recent timer callback did: which timer (src), the navigation
\* generation it was armed under and the one it ran under, whether an
\* extraction pass ran, the time since the last mutation notification, the
\* time since the extraction pass before (gap, as far as it is below
\* minUpdateInterval), and whether a poll callback ran with the streaming
\* signal gone (cleared).
Run(src, t, didRun) ==
    [src |-> src, schedGen |-> t.gen, runGen |-> hist.navGen, ran |-> didRun,
     since |-> IF hist.lastNotify < 0 THEN -1 ELSE now - hist.lastNotify,
     gap |-> IF ~didRun THEN -1
             ELSE IF now - octo.lastUpdateTime < minUpdateInterval
             THEN now - octo.lastUpdateTime
             ELSE minUpdateInterval,
     cleared |-> src = "poll" /\ ~isStreaming]

NoRun == [src |-> "none", schedGen |-> 0, runGen |-> 0, ran |-> FALSE, since |-> -1,
          gap |-> -1, cleared |-> FALSE]

DomStates ==
    {d \in [hasContent : BOOLEAN, prompts : 0..MaxDomPrompts, streaming : BOOLEAN] :
        d.prompts > 0 => d.hasContent}

\* OctoGPT constructor; the loading flags are those the OctoGPTSidebar
\* constructor gives the sidebar that setup() creates. sidebar: this.sidebar
\* is not null; observer: the MutationObserver is connected; awaitingInit:
\* setup() stands at 'await this.sidebar.init()'.
TimerInit ==
    /\ now = StartTime
    /\ pathname \in Pathnames
    /\ dom \in DomStates
    /\ octo = [isInitialized |-> FALSE, prompts |-> 0, lastUpdateTime |-> 0,
               debounceTimer |-> NoTimer, streamingPollTimer |-> NoTimer,
               waitLoops |-> {}, lastUrl |-> "", extractedFor |-> "",
               isLoading |-> TRUE, loadingState |-> "waiting",
               isNewChat |-> FALSE, sidebarPrompts |-> 0,
               sidebar |-> FALSE, observer |-> FALSE, awaitingInit |-> FALSE]
    /\ hist = [lastNotify |-> -1, navGen |-> 0, lastRun |-> NoRun]

\* OctoGPT.setup up to its await: the sidebar is created and its init()
\* started
Setup ==
    /\ ~octo.isInitialized
    /\ ~octo.awaitingInit
    /\ octo' = [octo EXCEPT !.sidebar = TRUE, !.awaitingInit = TRUE]
    /\ UNCHANGED <<now, pathname, dom, hist, nav, tree, out, panel, store>>

\* OctoGPT.setup from the await on, once sidebar.init() has settled: the
\* first pass, the mutation observer and the navigation listener
SetupResume ==
    /\ octo.awaitingInit
    /\ LET o1 == IF isNewChatUrl(pathname) THEN setNewChat(octo, TRUE)
                 ELSE LET e == extractAndLog(octo, pathname, hist.navGen)
                      IN IF e.prompts = 0
                         THEN waitForPromptsOrNewChat(e, hist.navGen) ELSE e
       IN octo' = ifSidebar(octo, [o1 EXCEPT !.isInitialized = TRUE,
                                             !.awaitingInit = FALSE,
                                             !.observer = TRUE,
                                             !.lastUrl = pathname])
    /\ UNCHANGED <<now, pathname, dom, hist, nav, tree, out, panel, store>>

\* The head of the MutationObserver callback, run for every mutation record
\* (child nodes added or removed under main): a panel that shows the
\* new-chat state on a conversation URL leaves it.
leaveNewChat(o, path) ==
    IF o.sidebar /\ o.isNewChat /\ ~isNewChatUrl(path)
    THEN setNewChat(o, FALSE) ELSE o

\* The page adds or removes a message node: the MutationObserver callback of
\* setupMutationObserver runs and calls debouncedUpdate.
MutationMessage ==
    /\ octo.observer
    /\ ~TimerDue
    /\ dom' \in DomStates
    /\ dom'.streaming = dom.streaming
    /\ octo' = debouncedUpdate(leaveNewChat(octo, pathname), hist.navGen)
    /\ hist' = [hist EXCEPT !.lastNotify = now]
    /\ UNCHANGED <<now, pathname, nav, tree, out, panel, store>>

\* The page adds or removes a message node while no MutationObserver is
\* connected (before setup() has made one, after destroy()): no callback runs.
PageChange ==
    /\ ~octo.observer
    /\ ~TimerDue
    /\ dom' \in DomStates \ {dom}
    /\ dom'.streaming = dom.streaming
    /\ UNCHANGED <<now, pathname, octo, hist, nav, tree, out, panel, store>>

\* The page starts or stops streaming a response by adding or removing a
\* node isStreaming() answers to (the stop button): a connected observer gets
\* a childList record and its callback runs; as the node is not a message
\* node no update is requested.
StreamingNodeChange ==
    /\ ~TimerDue
    /\ dom' = [dom EXCEPT !.streaming = ~@]
    /\ octo' = IF octo.observer THEN leaveNewChat(octo, pathname) ELSE octo
    /\ UNCHANGED <<now, pathname, hist, nav, tree, out, panel, store>>

\* The page starts or stops streaming a response by changing the class of a
\* node that is there (result-streaming): isStreaming() answers to it, and as
\* the observer does not watch attributes no callback runs.
StreamingChange ==
    /\ ~TimerDue
    /\ dom' = [dom EXCEPT !.streaming = ~@]
    /\ UNCHANGED <<now, pathname, octo, hist, nav, tree, out, panel, store>>

\* The page navigates (pushState/replaceState/popstate): the locationchange
\* listener of setupNavigationListener runs at the new location.
Navigate ==
    /\ octo.isInitialized
    /\ ~TimerDue
    /\ hist.navGen < MaxNav
    /\ \E u \in Pathnames :
        /\ u # octo.lastUrl
        /\ pathname' = u
        /\ LET g  == hist.navGen + 1
               o0 == [octo EXCEPT !.lastUrl = u]
           IN /\ octo' = ifSidebar(octo,
                            IF isNewChatUrl(u) THEN setNewChat(o0, TRUE)
                            ELSE waitForContentAndExtract(
                                   setLoadingState(setNewChat(o0, FALSE), "waiting"), u, g))
              /\ hist' = [hist EXCEPT !.navGen = g]
    /\ UNCHANGED <<now, dom, nav, tree, out, panel, store>>

\* The debounce timer's callback (debouncedUpdate)
DebounceFire ==
    /\ Armed(octo.debounceTimer)
    /\ octo.debounceTimer.due <= now
    /\ LET t  == octo.debounceTimer
           o0 == [octo EXCEPT !.debounceTimer = NoTimer]
       IN /\ octo' = ifSidebar(octo, extractAndLog(o0, pathname, hist.navGen))
          /\ hist' = [hist EXCEPT !.lastRun =
                        Run("debounce", t, ~Throttled(o0))]
    /\ UNCHANGED <<now, pathname, dom, nav, tree, out, panel, store>>

\* The streaming poll timer's callback (scheduleStreamingPoll)
StreamingPollFire ==
    /\ Armed(octo.streamingPollTimer)
    /\ octo.streamingPollTimer.due <= now
    /\ LET t  == octo.streamingPollTimer
           o0 == [octo EXCEPT !.streamingPollTimer = NoTimer, !.lastUpdateTime = 0]
       IN /\ octo' = ifSidebar(octo, extractAndLog(o0, pathname, hist.navGen))
          /\ hist' = [hist EXCEPT !.lastRun =
                        Run("poll", t, ~Throttled(o0))]
    /\ UNCHANGED <<now, pathname, dom, nav, tree, out, panel, store>>

\* A pending check of waitForContentAndExtract comes due
WaitContentCheck ==
    /\ \E w \in DueLoops :
        /\ w.kind = "content"
        /\ LET o0 == [octo EXCEPT !.waitLoops = @ \ {w}]
           IN /\ octo' = ifSidebar(octo, contentCheck(o0, pathname, w.start, w.gen))
              /\ hist' = [hist EXCEPT !.lastRun =
                        Run("content", w, hasConversationContent /\ ~Throttled(o0))]
    /\ UNCHANGED <<now, pathname, dom, nav, tree, out, panel, store>>

\* A pending check of waitForPromptsOrNewChat comes due
WaitPromptsCheck ==
    /\ \E w \in DueLoops :
        /\ w.kind = "prompts"
        /\ LET o0 == [octo EXCEPT !.waitLoops = @ \ {w}]
           IN /\ octo' = ifSidebar(octo, promptsCheck(o0, pathname, w))
              /\ hist' = [hist EXCEPT !.lastRun =
                        Run("prompts", w, TRUE)]
    /\ UNCHANGED <<now, pathname, dom, nav, tree, out, panel, store>>

\* OctoGPT.destroy, run by the beforeunload listener, which is there from
\* the load of the script on (and callable as window.octogpt.destroy()): the
\* observer, if there is one, is disconnected, the sidebar, if there is one,
\* is destroyed and forgotten, the debounce and the poll timer are cleared.
\* The checks of the wait loops and the locationchange listener stay, and a
\* setup() that stands at its await goes on afterwards.
Destroy ==
    /\ ~TimerDue
    /\ octo' = [octo EXCEPT !.observer = FALSE,
                            !.sidebar = FALSE,
                            !.debounceTimer = NoTimer,
                            !.streamingPollTimer = NoTimer]
    /\ UNCHANGED <<now, pathname, dom, hist, nav, tree, out, panel, store>>

\* Time passes; a due timer fires before the clock moves on.
Tick ==
    /\ ~TimerDue
    /\ now + TimeStep <= StartTime + TimeSpan
    /\ now' = now + TimeStep
    /\ UNCHANGED <<pathname, dom, octo, hist, nav, tree, out, panel, store>>

IdleParse == tree = 0 /\ out = 0

IdleNav == nav = 0

IdlePanel == panel = 0 /\ store = 0

TimerNext ==
    \/ Setup
    \/ SetupResume
    \/ MutationMessage
    \/ PageChange
    \/ StreamingNodeChange
    \/ StreamingChange
    \/ Navigate
    \/ DebounceFire
    \/ StreamingPollFire
    \/ WaitContentCheck
    \/ WaitPromptsCheck
    \/ Destroy
    \/ Tick

IdleTimer ==
    /\ now = 0 /\ pathname = "/" /\ dom = 0 /\ octo = 0 /\ hist = 0

InitTimer == TimerInit /\ IdleNav /\ IdleParse /\ IdlePanel

SpecTimer == InitTimer /\ [][TimerNext]_vars

\* A timer that is due fires (the browser's event loop runs the callback of
\* every setTimeout that was not cleared) and the clock moves on.
SpecTimerLive ==
    /\ SpecTimer
    /\ WF_vars(Tick)
    /\ WF_vars(DebounceFire)
    /\ WF_vars(StreamingPollFire)
    /\ WF_vars(WaitContentCheck)
    /\ WF_vars(WaitPromptsCheck)


(***************************************************************************)
(*                    SIDEBAR: KEYBOARD TRAVERSAL                          *)
(***************************************************************************)

\* ---- bounds of the model ----
MaxPrompts  == 2     \* prompts in a list handed to updatePrompts
MaxHeadings == 1     \* headings under one prompt

\* Prompt lists the content script may hand over: a prompt carries its number
\* of headings, none or MaxHeadings; only the last one may be marked
\* isGenerating (extractAndLog).
PromptOf(h, g) == [headings |-> h, isGenerating |-> g]

PromptLists ==
    UNION {
      { [i \in 1..n |-> PromptOf(hs[i], g /\ i = n)] :
          hs \in [1..n -> {0, MaxHeadings}], g \in BOOLEAN }
      : n \in 0..MaxPrompts }

\* The lists an extraction pass may bring after the list ps: whatever the
\* page shows then. The page may have left the conversation, loaded another
\* one, streamed a response, got a new prompt, or switched to another branch
\* at an edited prompt (a shorter list, earlier prompts changed).
NextLists(ps) == PromptLists

PromptItem(p)     == [type |-> "prompt",  promptIndex |-> p, headingIndex |-> -1]
HeadingItem(p, h) == [type |-> "heading", promptIndex |-> p, headingIndex |-> h]
NoItem            == [type |-> "none",    promptIndex |-> -1, headingIndex |-> -1]

\* OctoGPTSidebar.buildNavigationList: prompts from index p (0-based) on
RECURSIVE buildFrom(_, _, _)
buildFrom(prompts, collapsed, p) ==
    IF p >= Len(prompts) THEN <<>>
    ELSE LET n == prompts[p + 1].headings
             hs == IF n > 0 /\ p \notin collapsed
                   THEN [h \in 1..n |-> HeadingItem(p, h - 1)] ELSE <<>>
         IN <<PromptItem(p)>> \o hs \o buildFrom(prompts, collapsed, p + 1)

buildNavigationList(prompts, collapsed) == buildFrom(prompts, collapsed, 0)

\* Array.prototype.findIndex for the heading (p, h): 0-based, -1 if absent
RECURSIVE findIndexFrom(_, _, _, _)
findIndexFrom(list, p, h, i) ==
    IF i >= Len(list) THEN -1
    ELSE IF list[i + 1] = HeadingItem(p, h) THEN i
    ELSE findIndexFrom(list, p, h, i + 1)

\* OctoGPTSidebar.render -> createPromptItem: a generating prompt with
\* headings is forced open
render(prompts, collapsed) ==
    collapsed \ {p \in 0..(Len(prompts) - 1) :
                    prompts[p + 1].isGenerating /\ prompts[p + 1].headings > 0}

\* ---- page geometry: rows of the conversation in document order ----
RowHeight == 2

RECURSIVE rowsBefore(_, _)
rowsBefore(prompts, p) ==
    IF p <= 0 THEN 0
    ELSE rowsBefore(prompts, p - 1) + 1 + prompts[p].headings

\* vertical centre of the live node of an item
centerOf(prompts, item) ==
    RowHeight * (rowsBefore(prompts, item.promptIndex)
                 + (IF item.type = "heading" THEN item.headingIndex + 1 ELSE 0))

Abs(x) == IF x < 0 THEN -x ELSE x

Infinity == 1000000

\* What the page holds of the items of a list. live.prompts: the prompts
\* whose element, stored at extraction, is still connected; live.headings:
\* the headings <<promptIndex, headingIndex>> that findHeadingElement finds
\* again (it queries the document by turnId and takes the heading of that
\* level and index, whatever became of the stored nodes).
LiveOf(prompts, headings) == [prompts |-> prompts, headings |-> headings]

\* 'element && element.isConnected' for the element of an item
isConnected(live, item) ==
    IF item.type = "heading"
    THEN <<item.promptIndex, item.headingIndex>> \in live.headings
    ELSE item.promptIndex \in live.prompts

\* the forEach loop of findVisibleNavigationIndex / findVisiblePromptIndex:
\* items whose node is gone are skipped, the first closest one wins
RECURSIVE closestFrom(_, _, _, _, _, _, _)
closestFrom(prompts, list, live, c, i, closestIndex, closestDistance) ==
    IF i >= Len(list) THEN closestIndex
    ELSE LET item == list[i + 1]
             distance == Abs(centerOf(prompts, item) - c)
         IN IF ~isConnected(live, item)
            THEN closestFrom(prompts, list, live, c, i + 1, closestIndex, closestDistance)
            ELSE IF distance < closestDistance
            THEN closestFrom(prompts, list, live, c, i + 1, i, distance)
            ELSE closestFrom(prompts, list, live, c, i + 1, closestIndex, closestDistance)

\* OctoGPTSidebar.findVisibleNavigationIndex
findVisibleNavigationIndex(prompts, list, live, c, hasScroll) ==
    IF Len(list) = 0 THEN 0
    ELSE IF ~hasScroll THEN 0
    ELSE closestFrom(prompts, list, live, c, 0, 0, Infinity)

\* OctoGPTSidebar.findVisiblePromptIndex
findVisiblePromptIndex(prompts, live, c, hasScroll) ==
    IF Len(prompts) = 0 THEN 0
    ELSE IF ~hasScroll THEN 0
    ELSE closestFrom(prompts, [p \in 1..Len(prompts) |-> PromptItem(p - 1)],
                     live, c, 0, 0, Infinity)

\* The range test of handleKeyDown ("Clamp to valid range")
inRange(newIndex, length) == newIndex >= 0 /\ newIndex < length

\* navigateToIndex trusting the old integer index after the rebuild
navigateToIndexOldIndex(s, index, live) ==
    IF index < 0 \/ index >= Len(s.flatNavigationList) THEN s
    ELSE
      LET item == s.flatNavigationList[index + 1]
          s1 == [s EXCEPT !.navigationIndex = index,
                          !.scroll = IF isConnected(live, item) THEN item ELSE @]
      IN IF item.type = "prompt"
         THEN [s1 EXCEPT !.currentPromptIndex = item.promptIndex]
         ELSE
           LET s2 ==
                 IF item.promptIndex \in s1.collapsedPrompts
                 THEN LET col  == s1.collapsedPrompts \ {item.promptIndex}
                          list == buildNavigationList(s1.prompts, col)
                      IN [s1 EXCEPT
                            !.collapsedPrompts = render(s1.prompts, col),
                            !.flatNavigationList = list]
                 ELSE s1
           IN [s2 EXCEPT !.currentPromptIndex = -1]

\* OctoGPTSidebar.navigateToIndex; the element is the prompt's stored one,
\* or what findHeadingElement returns for a heading. scroll: the item
\* scrollToElement was called for.
navigateToIndex(s, index, live) ==
    IF index < 0 \/ index >= Len(s.flatNavigationList) THEN s
    ELSE
      LET item == s.flatNavigationList[index + 1]
          s1 == [s EXCEPT !.navigationIndex = index,
                          !.scroll = IF isConnected(live, item) THEN item ELSE @]
      IN IF item.type = "prompt"
         THEN \* setActivePrompt(item.promptIndex, true)
              [s1 EXCEPT !.currentPromptIndex = item.promptIndex]
         ELSE
           LET s2 ==
                 IF item.promptIndex \in s1.collapsedPrompts
                 THEN LET col  == s1.collapsedPrompts \ {item.promptIndex}
                          list == buildNavigationList(s1.prompts, col)
                          newIndex == findIndexFrom(list, item.promptIndex,
                                                    item.headingIndex, 0)
                      IN [s1 EXCEPT
                            !.collapsedPrompts = render(s1.prompts, col),
                            !.flatNavigationList = list,
                            !.navigationIndex =
                                IF newIndex # -1 THEN newIndex ELSE @]
                 ELSE s1
           IN \* highlightHeadingInSidebar
              [s2 EXCEPT !.currentPromptIndex = -1]

\* handlePromptClick without the test of isConnected
handlePromptClickAnyNode(s, index, live) ==
    IF index < 0 \/ index >= Len(s.prompts) THEN s
    ELSE [s EXCEPT !.currentPromptIndex = index, !.scroll = PromptItem(index)]

\* OctoGPTSidebar.handlePromptClick
handlePromptClick(s, index, live) ==
    IF index < 0 \/ index >= Len(s.prompts) THEN s
    ELSE IF ~isConnected(live, PromptItem(index)) THEN s
    ELSE [s EXCEPT !.currentPromptIndex = index, !.scroll = PromptItem(index)]

\* Alt+Up/Down wrapping around at the ends of the list
keyAllItemsWrap(s, direction, live, c, hasScroll) ==
    LET list == IF Len(s.flatNavigationList) = 0
                THEN buildNavigationList(s.prompts, s.collapsedPrompts)
                ELSE s.flatNavigationList
        s1 == [s EXCEPT !.flatNavigationList = list]
    IN IF Len(list) = 0 THEN s1
       ELSE LET s2 == IF s1.navigationIndex = -1
                      THEN [s1 EXCEPT !.navigationIndex =
                              findVisibleNavigationIndex(s1.prompts, list, live,
                                                         c, hasScroll)]
                      ELSE s1
                newIndex == (s2.navigationIndex + direction + Len(list)) % Len(list)
            IN navigateToIndex(s2, newIndex, live)

\* handleKeyDown, Alt+Up/Down: all items
keyAllItems(s, direction, live, c, hasScroll) ==
    LET list == IF Len(s.flatNavigationList) = 0
                THEN buildNavigationList(s.prompts, s.collapsedPrompts)
                ELSE s.flatNavigationList
        s1 == [s EXCEPT !.flatNavigationList = list]
    IN IF Len(list) = 0 THEN s1
       ELSE LET s2 == IF s1.navigationIndex = -1
                      THEN [s1 EXCEPT !.navigationIndex =
                              findVisibleNavigationIndex(s1.prompts, list, live,
                                                         c, hasScroll)]
                      ELSE s1
                newIndex == s2.navigationIndex + direction
            IN IF inRange(newIndex, Len(list))
               THEN navigateToIndex(s2, newIndex, live)
               ELSE s2

\* handleKeyDown, Alt+Shift+Up/Down: prompts only
keyPromptsOnly(s, direction, live, c, hasScroll) ==
    IF Len(s.prompts) = 0 THEN s
    ELSE LET currentPromptIndex ==
                IF s.currentPromptIndex = -1
                THEN findVisiblePromptIndex(s.prompts, live, c, hasScroll)
                ELSE s.currentPromptIndex
             newIndex == currentPromptIndex + direction
         IN IF inRange(newIndex, Len(s.prompts))
            THEN handlePromptClick(s, newIndex, live)
            ELSE s

\* OctoGPTSidebar.togglePromptCollapse
togglePromptCollapse(s, index) ==
    IF index \in s.collapsedPrompts
    THEN [s EXCEPT !.collapsedPrompts = @ \ {index}]
    ELSE [s EXCEPT !.collapsedPrompts = @ \cup {index}]

\* OctoGPTSidebar.toggleAllCollapsed; force is "undefined", "true" or "false"
toggleAllCollapsed(s, force) ==
    LET withHeadings == {p \in 0..(Len(s.prompts) - 1) : s.prompts[p + 1].headings > 0}
        allCollapsed == withHeadings \subseteq s.collapsedPrompts
        shouldCollapse == IF force # "undefined" THEN force = "true" ELSE ~allCollapsed
        col == IF shouldCollapse THEN s.collapsedPrompts \cup withHeadings
               ELSE s.collapsedPrompts \ withHeadings
    IN IF withHeadings = {} THEN s
       ELSE [s EXCEPT !.collapsedPrompts = render(s.prompts, col)]

\* OctoGPTSidebar.updatePrompts, its effect on the traversal state
updatePromptsFreshSet(s, prompts) ==
    [s EXCEPT !.prompts = prompts,
              !.navigationIndex = -1,
              !.flatNavigationList = <<>>,
              !.collapsedPrompts = {}]

updatePrompts(s, prompts) ==
    [s EXCEPT !.prompts = prompts,
              !.navigationIndex = -1,
              !.flatNavigationList = <<>>,
              !.collapsedPrompts = render(prompts, @)]

\* ---- inputs read from the page at the time of a key press ----
Indices(s) == 0..(Len(s.prompts) - 1)

\* the first step of a traversal has to find its start on the page
needsSync(s, mode) ==
    \/ mode = "all" /\ s.navigationIndex = -1
    \/ mode = "prompts" /\ s.currentPromptIndex = -1

\* What a handler reads from the page: whether a scroll container is found,
\* the viewport's vertical centre, and the items whose nodes are there.
\* Centre and container matter only to the search for a start.
PageOf(hasScroll, c, live) == [hasScroll |-> hasScroll, c |-> c, live |-> live]

\* the headings of a list, <<promptIndex, headingIndex>>
headingsOf(prompts) ==
    {<<p, h>> \in (0..(Len(prompts) - 1)) \X (0..(MaxHeadings - 1)) :
        h < prompts[p + 1].headings}

\* every node there, no node there
AllLive(prompts) == LiveOf(0..(Len(prompts) - 1), headingsOf(prompts))
NoneLive == LiveOf({}, {})

\* any part of the nodes there
Lives(prompts) ==
    {LiveOf(P, H) : P \in SUBSET (0..(Len(prompts) - 1)),
                    H \in SUBSET headingsOf(prompts)}

\* the viewport centred on a row or between two rows
Centres(prompts) ==
    LET rows == rowsBefore(prompts, Len(prompts))
    IN {RowHeight * r : r \in 0..(rows - 1)}
       \cup {RowHeight * r + RowHeight \div 2 : r \in 0..(rows - 2)}

\* the rows of the page: every prompt and every heading
Items(prompts) ==
    {PromptItem(p) : p \in 0..(Len(prompts) - 1)}
    \cup {HeadingItem(x[1], x[2]) : x \in headingsOf(prompts)}

\* the page on which the nodes of these items are there and no others
OnlyLive(items) ==
    LiveOf({i.promptIndex : i \in {j \in items : j.type = "prompt"}},
           {<<i.promptIndex, i.headingIndex>> : i \in {j \in items : j.type = "heading"}})

\* A handler that has its position reads the node of its target only, which
\* is there or not. One that has to find its start reads every node, and two
\* of them decide what it does, the one it starts from and the one it steps
\* to: the pages are those with the viewport centred on a row whose node is
\* there and at most one other row's node there, the page with no node
\* there, and those where no scroll container is found. (SyncPages has
\* every page.)
Pages(s, mode) ==
    IF needsSync(s, mode)
    THEN {PageOf(TRUE, centerOf(s.prompts, a), OnlyLive({a, b})) :
            a \in Items(s.prompts), b \in Items(s.prompts)}
         \cup {PageOf(TRUE, 0, NoneLive),
               PageOf(FALSE, 0, AllLive(s.prompts)), PageOf(FALSE, 0, NoneLive)}
    ELSE {PageOf(TRUE, 0, AllLive(s.prompts)), PageOf(TRUE, 0, NoneLive)}

\* What the last key press met, as far as it is one of the cases below.
\* bound, dir, pre: the traversal stood on the first or last entry and was
\* asked to step outward. target: the step went to a heading whose prompt was
\* collapsed. stale: the list read was not the one buildNavigationList gives
\* for the prompts and collapse set of that moment.
Event(mode, direction, s, list, item) ==
    LET at      == IF mode = "all" THEN s.navigationIndex ELSE s.currentPromptIndex
        length  == IF mode = "all" THEN Len(list) ELSE Len(s.prompts)
        atBound == \/ direction = 1 /\ at # -1 /\ at = length - 1
                   \/ direction = -1 /\ at = 0
        hidden  == /\ mode = "all"
                   /\ item.type = "heading"
                   /\ item.promptIndex \in s.collapsedPrompts
    IN [bound  |-> IF atBound THEN mode ELSE "none",
        dir    |-> IF atBound THEN direction ELSE 0,
        pre    |-> IF atBound THEN at ELSE -1,
        target |-> IF hidden THEN item ELSE NoItem,
        index  |-> IF hidden
                   THEN findIndexFrom(list, item.promptIndex, item.headingIndex, 0)
                   ELSE -1,
        stale  |-> /\ mode = "all"
                   /\ list # buildNavigationList(s.prompts, s.collapsedPrompts)]

NoEvent == [bound |-> "none", dir |-> 0, pre |-> -1, target |-> NoItem,
            index |-> -1, stale |-> FALSE]

\* What the last handler met on the page. stale: the node of the item it
\* was to go to was detached (for a heading: could not be re-resolved).
Seen(stale) == [stale |-> stale]

KeySeen(target, page) ==
    Seen(target # NoItem /\ ~isConnected(page.live, target))

NotSeen == Seen(FALSE)

\* the state a handler works on: nav without its history fields, and no
\* scroll of the main viewport started yet
StateOf(n) == [prompts |-> n.prompts, currentPromptIndex |-> n.currentPromptIndex,
               collapsedPrompts |-> n.collapsedPrompts,
               navigationIndex |-> n.navigationIndex,
               flatNavigationList |-> n.flatNavigationList,
               scroll |-> NoItem]

With(s, e) == [prompts |-> s.prompts, currentPromptIndex |-> s.currentPromptIndex,
               collapsedPrompts |-> s.collapsedPrompts,
               navigationIndex |-> s.navigationIndex,
               flatNavigationList |-> s.flatNavigationList,
               scroll |-> s.scroll, last |-> e, seen |-> NotSeen]

\* OctoGPTSidebar constructor, then the first updatePrompts
NavInit ==
    \E ps \in PromptLists :
        nav = With(updatePrompts([prompts |-> <<>>, currentPromptIndex |-> -1,
                                  collapsedPrompts |-> {}, navigationIndex |-> -1,
                                  flatNavigationList |-> <<>>, scroll |-> NoItem],
                                 ps), NoEvent)

\* keydown Alt+ArrowUp / Alt+ArrowDown
AltArrow(direction) ==
    LET s == StateOf(nav)
    IN \E page \in Pages(s, "all") :
        LET list == IF Len(s.flatNavigationList) = 0
                    THEN buildNavigationList(s.prompts, s.collapsedPrompts)
                    ELSE s.flatNavigationList
            from == IF s.navigationIndex = -1
                    THEN findVisibleNavigationIndex(s.prompts, list, page.live,
                                                    page.c, page.hasScroll)
                    ELSE s.navigationIndex
            item == IF inRange(from + direction, Len(list))
                    THEN list[from + direction + 1] ELSE NoItem
        IN /\ nav' = [With(keyAllItems(s, direction, page.live, page.c, page.hasScroll),
                           Event("all", direction, s, list, item))
                        EXCEPT !.seen = KeySeen(item, page)]
           /\ UNCHANGED <<now, pathname, dom, octo, hist, tree, out, panel, store>>

AltDown == AltArrow(1)
AltUp   == AltArrow(-1)

\* keydown Alt+Shift+ArrowUp / Alt+Shift+ArrowDown
AltShiftArrow(direction) ==
    LET s == StateOf(nav)
    IN /\ Len(s.prompts) > 0
       /\ \E page \in Pages(s, "prompts") :
            LET from == IF s.currentPromptIndex = -1
                        THEN findVisiblePromptIndex(s.prompts, page.live, page.c,
                                                    page.hasScroll)
                        ELSE s.currentPromptIndex
                item == IF inRange(from + direction, Len(s.prompts))
                        THEN PromptItem(from + direction) ELSE NoItem
            IN nav' = [With(keyPromptsOnly(s, direction, page.live, page.c, page.hasScroll),
                            Event("prompts", direction, s, s.prompts, item))
                         EXCEPT !.seen = KeySeen(item, page)]
       /\ UNCHANGED <<now, pathname, dom, octo, hist, tree, out, panel, store>>

AltShiftDown == AltShiftArrow(1)
AltShiftUp   == AltShiftArrow(-1)

\* click on a prompt row
PromptClick ==
    LET s == StateOf(nav)
    IN /\ \E index \in Indices(s), connected \in BOOLEAN :
            nav' = [With(handlePromptClick(s, index,
                                           IF connected THEN AllLive(s.prompts)
                                           ELSE NoneLive),
                         NoEvent)
                      EXCEPT !.seen = Seen(~connected)]
       /\ UNCHANGED <<now, pathname, dom, octo, hist, tree, out, panel, store>>

\* click on the toggle button of a prompt that has headings
ToggleClick ==
    LET s == StateOf(nav)
    IN /\ \E index \in Indices(s) :
            /\ s.prompts[index + 1].headings > 0
            /\ nav' = With(togglePromptCollapse(s, index), NoEvent)
       /\ UNCHANGED <<now, pathname, dom, octo, hist, tree, out, panel, store>>

\* Alt+click on a prompt's toggle button: all prompts follow its target state
ToggleAltClick ==
    LET s == StateOf(nav)
    IN /\ \E index \in Indices(s) :
            /\ s.prompts[index + 1].headings > 0
            /\ nav' = With(toggleAllCollapsed(s,
                               IF index \notin s.collapsedPrompts THEN "true" ELSE "false"),
                           NoEvent)
       /\ UNCHANGED <<now, pathname, dom, octo, hist, tree, out, panel, store>>

\* click on the collapse-all button
CollapseAllClick ==
    LET s == StateOf(nav)
    IN /\ nav' = With(toggleAllCollapsed(s, "undefined"), NoEvent)
       /\ UNCHANGED <<now, pathname, dom, octo, hist, tree, out, panel, store>>

\* the content script hands over a fresh prompt list
UpdatePrompts ==
    LET s == StateOf(nav)
    IN /\ \E ps \in NextLists(s.prompts) :
            nav' = With(updatePrompts(s, ps), NoEvent)
       /\ UNCHANGED <<now, pathname, dom, octo, hist, tree, out, panel, store>>

NavNext ==
    \/ AltDown
    \/ AltUp
    \/ AltShiftDown
    \/ AltShiftUp
    \/ PromptClick
    \/ ToggleClick
    \/ ToggleAltClick
    \/ CollapseAllClick
    \/ UpdatePrompts

InitNav == NavInit /\ IdleTimer /\ IdleParse /\ IdlePanel

SpecNav == InitNav /\ [][NavNext]_vars

\* the collapse-set under the clicks that change it and the prompt-list
\* updates, with a click on a prompt between them
CollapseNext ==
    \/ PromptClick
    \/ ToggleClick
    \/ ToggleAltClick
    \/ CollapseAllClick
    \/ UpdatePrompts

SpecCollapse == InitNav /\ [][CollapseNext]_vars

(***************************************************************************)
(*              SIDEBAR: THE FIRST STEP OF A TRAVERSAL                     *)
(***************************************************************************)

\* The pages a first step may meet: a scroll container found or not (none
\* is found when no candidate overflows, as on a conversation that fits the
\* window), the viewport centred on a row or between two rows, any part of
\* the nodes there
SyncPages(prompts) ==
    {PageOf(hasScroll, c, live) :
        hasScroll \in BOOLEAN, c \in Centres(prompts), live \in Lives(prompts)}

\* tree: a sidebar with no position in either mode, the key pressed and the
\* page it meets; out: the sidebar after the key's handler. The collapse-set
\* is any set of indices: updatePrompts carries the indices collapsed in the
\* lists before, and a click on a toggle (togglePromptCollapse, which does
\* not render) collapses a prompt with headings, generating or not.
SyncInit ==
    /\ \E ps \in PromptLists \ {<<>>} :
         \E col \in SUBSET (0..(MaxPrompts - 1)),
            mode \in {"all", "prompts"}, direction \in {-1, 1},
            page \in SyncPages(ps) :
            tree = [sidebar |-> [prompts |-> ps, currentPromptIndex |-> -1,
                                 collapsedPrompts |-> col,
                                 navigationIndex |-> -1,
                                 flatNavigationList |-> <<>>, scroll |-> NoItem],
                    mode |-> mode, dir |-> direction, page |-> page]
    /\ out = [done |-> FALSE]

\* handleKeyDown for the key pressed
FirstStep ==
    /\ ~out.done
    /\ LET p == tree.page
       IN out' = [done |-> TRUE,
                  sidebar |-> IF tree.mode = "all"
                              THEN keyAllItems(tree.sidebar, tree.dir, p.live, p.c,
                                               p.hasScroll)
                              ELSE keyPromptsOnly(tree.sidebar, tree.dir, p.live, p.c,
                                                  p.hasScroll)]
    /\ UNCHANGED <<tree, now, pathname, dom, octo, hist, nav, panel, store>>

SyncNext == FirstStep

InitSync == SyncInit /\ IdleTimer /\ IdleNav /\ IdlePanel

SpecSync == InitSync /\ [][SyncNext]_vars

(***************************************************************************)
(*                        PARSER: EXTRACTION                               *)
(***************************************************************************)

\* ---- bounds of the model ----
MaxNodes  == 2     \* sibling nodes of the conversation in a document tree
MaxPasses == 2     \* extraction passes followed on one tree and URL

Adapters == {"chatgpt", "gemini", "claude"}

\* window.location.pathname values, per host
ParsePaths(adapter) ==
    IF adapter = "chatgpt" THEN {"/", "/c/a"}
    ELSE IF adapter = "gemini" THEN {"/app", "/app/a", "/share/a"}
    ELSE {"/new", "/chat/a"}

\* GeminiParser.getConversationId: /share/{id} or /app/{id}
geminiGetConversationId(p) ==
    IF p = "/share/a" THEN "a" ELSE IF p = "/app/a" THEN "a" ELSE "none"

\* ClaudeParser.getConversationId: /chat/{id}
claudeGetConversationId(p) == IF p = "/chat/a" THEN "a" ELSE "none"

conversationIdOf(adapter, p) ==
    IF adapter = "chatgpt" THEN getConversationId(p)
    ELSE IF adapter = "gemini" THEN geminiGetConversationId(p)
    ELSE claudeGetConversationId(p)

\* ---- text ----
\* A text is a sequence of tokens: white space, letters, and the script
\* prefix that ChatGPT's hydration code starts with.
Whitespace == {" ", "\n"}

RECURSIVE collapseSpace(_)
collapseSpace(t) ==
    IF t = <<>> THEN <<>>
    ELSE IF Head(t) \in Whitespace
    THEN IF Len(t) > 1 /\ t[2] \in Whitespace
         THEN collapseSpace(Tail(t))
         ELSE <<" ">> \o collapseSpace(Tail(t))
    ELSE <<Head(t)>> \o collapseSpace(Tail(t))

RECURSIVE trimStart(_)
trimStart(t) ==
    IF t # <<>> /\ Head(t) \in Whitespace THEN trimStart(Tail(t)) ELSE t

RECURSIVE trimEnd(_)
trimEnd(t) ==
    IF t # <<>> /\ t[Len(t)] \in Whitespace
    THEN trimEnd(SubSeq(t, 1, Len(t) - 1)) ELSE t

\* String.prototype.trim
trim(t) == trimEnd(trimStart(t))

\* cleanText: text.replace(/\s+/g, ' ').trim()
cleanText(t) == trim(collapseSpace(t))

\* ---- document tree ----
\* The tree is the sequence of sibling nodes under the conversation root. A
\* node is described by what the parsers' selectors answer on it:
\*   turn      it is a turn container ([data-testid^="conversation-turn-"],
\*             .conversation-container, [data-test-render-count])
\*   key       the container carries a stable key (data-testid, id)
\*   user      it holds an element the primary user selector matches
\*   assistant it holds the host's assistant element
\*   avatar    it holds the assistant avatar
\*   copy      it holds a copy button
\*   busy      it holds a typing indicator, stop button or streaming flag
\*   content   it holds a content block (markdown, .whitespace-pre-wrap)
\*   block     it is a generic content block (main .text-base)
\*   nav       its previous/next response buttons: none, enabled, disabled
\*   text      its text content
\*   elems     the heading-like elements it holds, in document order
\*   throws    reading it during extraction raises an error
Blank ==
    [turn |-> FALSE, key |-> FALSE, user |-> FALSE, assistant |-> FALSE,
     avatar |-> FALSE, copy |-> FALSE, busy |-> FALSE, content |-> FALSE,
     block |-> FALSE, nav |-> "none", text |-> <<>>, elems |-> <<>>,
     throws |-> FALSE]

Elem(level, inUser, lead) == [level |-> level, inUser |-> inUser, lead |-> lead]

UserTurn ==
    [Blank EXCEPT !.turn = TRUE, !.key = TRUE, !.user = TRUE, !.content = TRUE,
                  !.text = <<" ", "a", "\n", " ", "b">>]
EditedUserTurn ==
    [UserTurn EXCEPT !.nav = "disabled", !.text = <<"a">>]
ThrowingUserTurn ==
    [UserTurn EXCEPT !.throws = TRUE]
LooseUser ==
    [Blank EXCEPT !.user = TRUE, !.content = TRUE, !.text = <<"b", " ">>]
AssistantTurn ==
    [Blank EXCEPT !.turn = TRUE, !.key = TRUE, !.assistant = TRUE, !.avatar = TRUE,
                  !.copy = TRUE, !.content = TRUE, !.text = <<"c">>,
                  !.elems = <<Elem("h3", FALSE, FALSE), Elem("h4", FALSE, FALSE),
                              Elem("h3", FALSE, FALSE)>>]
LegacyUserTurn ==
    [Blank EXCEPT !.turn = TRUE, !.key = TRUE, !.content = TRUE, !.text = <<"a">>]
PlainAssistantTurn ==
    [Blank EXCEPT !.turn = TRUE, !.key = TRUE, !.content = TRUE, !.copy = TRUE,
                  !.text = <<"c">>]
BlankTurn ==
    [Blank EXCEPT !.turn = TRUE, !.key = TRUE, !.content = TRUE,
                  !.text = <<" ", "\n">>]
UserBlock ==
    [Blank EXCEPT !.block = TRUE, !.text = <<"a", " ", "b">>]
AssistantBlock ==
    [Blank EXCEPT !.block = TRUE, !.copy = TRUE, !.text = <<"c">>]
BusyBlock ==
    [Blank EXCEPT !.block = TRUE, !.busy = TRUE, !.text = <<"c">>]
ScriptBlock ==
    [Blank EXCEPT !.block = TRUE, !.text = <<"window.__oai_", "a">>]

NodeKinds ==
    {UserTurn, EditedUserTurn, ThrowingUserTurn, LooseUser, AssistantTurn, LegacyUserTurn,
     PlainAssistantTurn, BlankTurn, UserBlock, AssistantBlock, BusyBlock,
     ScriptBlock}

Trees == UNION {[1..n -> NodeKinds] : n \in 0..MaxNodes}

\* the positions 1..Len(nodes), in document order
positions(nodes) == [i \in 1..Len(nodes) |-> i]

\* an element handed to extractPromptData: the node it lies in and the stage
\* of the search that found it
Candidate(src, stage) == [src |-> src, stage |-> stage]

tagAll(found, stage) ==
    [k \in 1..Len(found) |-> Candidate(found[k], stage)]

\* ---- headings ----
\* the tiers tried, coarse to fine
headingLevels(adapter) ==
    IF adapter = "claude" THEN <<"h1", "h2", "h3", "h4", "h5">>
    ELSE <<"h2", "h3", "h4", "h5">>

\* a Heading: its level, its index among those returned, and the element of
\* the container it was read from
Heading(level, index, elem) == [level |-> level, index |-> index, elem |-> elem]

\* container.querySelectorAll(level); Claude drops the elements that lie
\* inside a user-message element
headingsAt(adapter, elems, level) ==
    SelectSeq(positions(elems),
              LAMBDA k : /\ elems[k].level = level
                         /\ adapter = "claude" => ~elems[k].inUser)

\* the loop over headingLevels, from tier i on
RECURSIVE headingCascade(_, _, _)
headingCascade(adapter, elems, i) ==
    IF i > Len(headingLevels(adapter)) THEN <<>>
    ELSE LET level    == headingLevels(adapter)[i]
             headings == headingsAt(adapter, elems, level)
         IN IF Len(headings) > 0
            THEN [k \in 1..Len(headings) |-> Heading(level, k - 1, headings[k])]
            ELSE headingCascade(adapter, elems, i + 1)

\* ClaudeParser.extractStrongHeadings: strong elements outside the user
\* message that lead their paragraph
extractStrongHeadings(elems) ==
    LET strong == SelectSeq(positions(elems),
                            LAMBDA k : /\ elems[k].level = "strong"
                                       /\ ~elems[k].inUser
                                       /\ elems[k].lead)
    IN [k \in 1..Len(strong) |-> Heading("strong", k - 1, strong[k])]

\* every tier's matches in one list
extractHeadingsMerged(adapter, container) ==
    LET all == SelectSeq(positions(container.elems),
                         LAMBDA k : \E i \in 1..Len(headingLevels(adapter)) :
                                       container.elems[k].level = headingLevels(adapter)[i])
    IN [k \in 1..Len(all) |-> Heading(container.elems[all[k]].level, k - 1, all[k])]

\* extractHeadingsFromElement of the three parsers
extractHeadingsFromElement(adapter, container) ==
    IF adapter = "gemini" /\ ~container.content THEN <<>>
    ELSE LET headings == headingCascade(adapter, container.elems, 1)
         IN IF adapter = "claude" /\ Len(headings) = 0
            THEN extractStrongHeadings(container.elems)
            ELSE headings

\* ClaudeParser.extractAssistantHeadings, the walk over the next siblings:
\* the position of the assistant container, 0 if there is none
RECURSIVE claudeNextAssistant(_, _)
claudeNextAssistant(nodes, i) ==
    IF i > Len(nodes) THEN 0
    ELSE LET hasHeadings ==
                \E k \in 1..Len(nodes[i].elems) :
                    nodes[i].elems[k].level \in {"h1", "h2", "h3", "h4", "h5"}
         IN IF nodes[i].assistant \/ hasHeadings THEN i
            ELSE IF nodes[i].user THEN 0
            ELSE claudeNextAssistant(nodes, i + 1)

\* extractAssistantHeadings of the three parsers, for the element in node src
extractAssistantHeadings(adapter, nodes, src) ==
    IF ~nodes[src].turn THEN <<>>
    ELSE IF adapter = "chatgpt"
    THEN IF src < Len(nodes) /\ nodes[src + 1].assistant
         THEN extractHeadingsFromElement(adapter, nodes[src + 1])
         ELSE <<>>
    ELSE IF adapter = "gemini"
    THEN IF nodes[src].assistant
         THEN extractHeadingsFromElement(adapter, nodes[src])
         ELSE IF src < Len(nodes) /\ nodes[src + 1].turn /\ nodes[src + 1].assistant
         THEN extractHeadingsFromElement(adapter, nodes[src + 1])
         ELSE <<>>
    ELSE LET at == claudeNextAssistant(nodes, src + 1)
         IN IF at = 0 THEN <<>>
            ELSE extractHeadingsFromElement(adapter, nodes[at])

\* ---- user turns ----
\* ChatGPTParser.looksLikeUserMessage
looksLikeUserMessage(node) ==
    LET text == trim(node.text)
    IN /\ text # <<>>
       /\ Head(text) # "window.__oai_"
       /\ \A k \in 1..Len(text) : text[k] # "__oai_SSR_HTML"
       /\ ~node.copy
       /\ ~node.busy

\* ClaudeParser.looksLikeUserMessage
claudeLooksLikeUserMessage(node) ==
    /\ ~(node.assistant \/ node.busy)
    /\ ~node.copy
    /\ trim(node.text) # <<>>

\* both stages of the fallback run, their results in one list
findUserMessagesWithFallbackMixed(adapter, nodes) ==
    IF adapter = "chatgpt"
    THEN tagAll(SelectSeq(positions(nodes),
                          LAMBDA i : nodes[i].turn /\ ~nodes[i].avatar /\ nodes[i].content),
                "turns")
         \o tagAll(SelectSeq(positions(nodes),
                             LAMBDA i : nodes[i].block /\ looksLikeUserMessage(nodes[i])),
                   "blocks")
    ELSE tagAll(SelectSeq(positions(nodes), LAMBDA i : nodes[i].turn /\ nodes[i].user),
                "turns")
         \o tagAll(SelectSeq(positions(nodes),
                             LAMBDA i : /\ nodes[i].content
                                        /\ nodes[i].turn
                                        /\ claudeLooksLikeUserMessage(nodes[i])),
                   "blocks")

\* findUserMessagesWithFallback of ChatGPTParser and ClaudeParser
findUserMessagesWithFallback(adapter, nodes) ==
    IF adapter = "chatgpt"
    THEN LET turns == SelectSeq(positions(nodes),
                                LAMBDA i : /\ nodes[i].turn
                                           /\ ~nodes[i].avatar
                                           /\ nodes[i].content)
         IN IF Len(turns) = 0
            THEN tagAll(SelectSeq(positions(nodes),
                                  LAMBDA i : /\ nodes[i].block
                                             /\ looksLikeUserMessage(nodes[i])),
                        "blocks")
            ELSE tagAll(turns, "turns")
    ELSE LET turns == SelectSeq(positions(nodes),
                                LAMBDA i : nodes[i].turn /\ nodes[i].user)
         IN IF Len(turns) = 0
            THEN tagAll(SelectSeq(positions(nodes),
                                  LAMBDA i : /\ nodes[i].content
                                             /\ nodes[i].turn
                                             /\ claudeLooksLikeUserMessage(nodes[i])),
                        "blocks")
            ELSE tagAll(turns, "turns")

\* the head of findUserMessages: the primary selector, then the fallback
findUserElements(adapter, nodes) ==
    LET userElements == SelectSeq(positions(nodes), LAMBDA i : nodes[i].user)
    IN IF Len(userElements) = 0 /\ adapter # "gemini"
       THEN findUserMessagesWithFallback(adapter, nodes)
       ELSE tagAll(userElements, "primary")

\* getMessageText of the three parsers: the content container's text, or
\* the element's own, cleaned
getMessageText(node) == cleanText(node.text)

\* generatePreview(text), maxLength = 12
previewLength == 12

generatePreview(text) ==
    LET cleaned == trim(text)
    IN IF Len(cleaned) <= previewLength THEN cleaned
       ELSE SubSeq(cleaned, 1, previewLength) \o <<"...">>

\* getBranchInfo of the three parsers; isNull: no turn container was found
getBranchInfo(adapter, node) ==
    IF adapter = "chatgpt"
    THEN IF ~node.turn
         THEN [isNull |-> TRUE, hasBranches |-> FALSE, enabled |-> FALSE]
         ELSE [isNull |-> FALSE, hasBranches |-> node.nav # "none",
               enabled |-> node.nav = "enabled"]
    ELSE [isNull |-> FALSE, hasBranches |-> FALSE, enabled |-> FALSE]

\* A prompt id: the stable key of a container (base and position n of the
\* container), or "prompt-<conversationId>-<index>"
PromptId(base, conv, n) == [base |-> base, conv |-> conv, n |-> n]

\* BaseParser.generatePromptId
baseGeneratePromptId(conv, index) == PromptId("prompt", conv, index)

\* generatePromptId of the three parsers, for a candidate element
generatePromptId(adapter, conv, nodes, cand, index) ==
    LET node == nodes[cand.src]
    IN IF adapter = "chatgpt"
       THEN IF node.turn THEN PromptId("conversation-turn", "", cand.src)
            ELSE baseGeneratePromptId(conv, index)
       ELSE IF adapter = "gemini"
       THEN IF node.turn /\ node.key THEN PromptId("container", "", cand.src)
            ELSE baseGeneratePromptId(conv, index)
       ELSE IF cand.stage # "blocks" THEN PromptId("user-message", "", 0)
            ELSE IF node.key THEN PromptId("testid", "", cand.src)
            ELSE baseGeneratePromptId(conv, index)

\* extractPromptData of the three parsers: no prompt, or one. An error
\* raised while the element is read is caught and gives no prompt.
extractPromptData(adapter, conv, nodes, cand, index, clock) ==
    LET node        == nodes[cand.src]
        textContent == getMessageText(node)
        branchInfo  == getBranchInfo(adapter, node)
    IN IF node.throws THEN <<>>
       ELSE IF Len(trim(textContent)) = 0 THEN <<>>
       ELSE << [id |-> generatePromptId(adapter, conv, nodes, cand, index),
                index |-> index,
                text |-> textContent,
                preview |-> generatePreview(textContent),
                timestamp |-> clock,
                isEdited |-> ~branchInfo.isNull /\ branchInfo.hasBranches,
                branchInfo |-> branchInfo,
                element |-> cand,
                headings |-> extractAssistantHeadings(adapter, nodes, cand.src)] >>

\* the forEach loop that an error raised for an element ends
RECURSIVE collectPromptsUncaught(_, _, _, _, _, _)
collectPromptsUncaught(adapter, conv, nodes, userElements, k, clock) ==
    IF k > Len(userElements) THEN <<>>
    ELSE IF nodes[userElements[k].src].throws THEN <<>>
    ELSE extractPromptData(adapter, conv, nodes, userElements[k], k - 1, clock)
         \o collectPromptsUncaught(adapter, conv, nodes, userElements, k + 1, clock)

\* the forEach loop of findUserMessages, from element k on
RECURSIVE collectPrompts(_, _, _, _, _, _)
collectPrompts(adapter, conv, nodes, userElements, k, clock) ==
    IF k > Len(userElements) THEN <<>>
    ELSE extractPromptData(adapter, conv, nodes, userElements[k], k - 1, clock)
         \o collectPrompts(adapter, conv, nodes, userElements, k + 1, clock)

\* findUserMessages of the three parsers
findUserMessages(adapter, conv, nodes, clock) ==
    collectPrompts(adapter, conv, nodes, findUserElements(adapter, nodes), 1, clock)

\* the parser object; candidates: the elements of the last pass
Parser(conversationId, prompts, candidates) ==
    [conversationId |-> conversationId, prompts |-> prompts,
     candidates |-> candidates]

\* extractAllPrompts that keeps the prompts of the pass before
extractAllPromptsKeeping(adapter, parser, p, nodes, clock) ==
    LET conv == conversationIdOf(adapter, p)
    IN IF conv = "none" THEN Parser(conv, <<>>, <<>>)
       ELSE Parser(conv, parser.prompts \o findUserMessages(adapter, conv, nodes, clock),
                   findUserElements(adapter, nodes))

\* extractAllPrompts without the test of the conversation id
extractAllPromptsAnyUrl(adapter, parser, p, nodes, clock) ==
    LET conv == conversationIdOf(adapter, p)
    IN Parser(conv, findUserMessages(adapter, conv, nodes, clock),
              findUserElements(adapter, nodes))

\* extractAllPrompts of the three parsers
extractAllPrompts(adapter, parser, p, nodes, clock) ==
    LET conv == conversationIdOf(adapter, p)
    IN IF conv = "none" THEN Parser(conv, <<>>, <<>>)
       ELSE Parser(conv, findUserMessages(adapter, conv, nodes, clock),
                   findUserElements(adapter, nodes))

\* the ids of a prompt list, in order
idsOf(prompts) == [k \in 1..Len(prompts) |-> prompts[k].id]

\* ---- the parser on one document tree ----
\* tree: the adapter in use, the URL, the nodes, Date.now()
\* out:  the parser object, the passes run since the URL was set, and the
\*       ids the pass before returned
ParseInit ==
    /\ \E adapter \in Adapters :
         \E p \in ParsePaths(adapter), nodes \in Trees :
            tree = [adapter |-> adapter, pathname |-> p, nodes |-> nodes, clock |-> 1]
    /\ out = [parser |-> Parser("none", <<>>, <<>>), passes |-> 0, prevIds |-> <<>>]

\* parser.extractAllPrompts(), at a later time than the pass before
ExtractPass ==
    /\ tree.clock <= MaxPasses
    /\ out' = [parser |-> extractAllPrompts(tree.adapter, out.parser, tree.pathname,
                                             tree.nodes, tree.clock),
               passes |-> out.passes + 1,
               prevIds |-> idsOf(out.parser.prompts)]
    /\ tree' = [tree EXCEPT !.clock = @ + 1]
    /\ UNCHANGED <<now, pathname, dom, octo, hist, nav, panel, store>>

\* the page moves to another URL of the host
LocationChange ==
    /\ \E p \in ParsePaths(tree.adapter) \ {tree.pathname} :
         tree' = [tree EXCEPT !.pathname = p]
    /\ out' = [out EXCEPT !.passes = 0, !.prevIds = <<>>]
    /\ UNCHANGED <<now, pathname, dom, octo, hist, nav, panel, store>>

ParseNext ==
    \/ ExtractPass
    \/ LocationChange

InitParse == ParseInit /\ IdleTimer /\ IdleNav /\ IdlePanel

SpecParse == InitParse /\ [][ParseNext]_vars

(***************************************************************************)
(*                   PARSER: THE HEADING CASCADE                           *)
(***************************************************************************)

MaxElems == 3      \* heading-like elements in a response container

\* the elements a container may hold: h1..h6, headings inside a quoted user
\* message, strong spans that lead their paragraph and strong spans that
\* do not
ElemKinds ==
    {Elem(level, FALSE, FALSE) : level \in {"h1", "h2", "h3", "h4", "h5", "h6"}}
    \cup {Elem("h1", TRUE, FALSE), Elem("h2", TRUE, FALSE),
          Elem("strong", FALSE, TRUE), Elem("strong", FALSE, FALSE)}

\* an assistant response container; content: the markdown area is there
Containers ==
    {[Blank EXCEPT !.turn = TRUE, !.key = TRUE, !.assistant = TRUE,
                   !.content = md, !.elems = es] :
        md \in BOOLEAN,
        es \in UNION {[1..n -> ElemKinds] : n \in 0..MaxElems}}

\* What the lookup of a heading's turnId finds: the container the headings
\* were read from, or another one. Claude's turnId is the render-count value,
\* which an earlier container may carry too; Gemini's is the id of the user
\* message's container, while the response may lie in the next one.
Lookups(adapter) == IF adapter = "chatgpt" THEN {"same"} ELSE {"same", "other"}

\* No node of the container: null, or a node of another container
NoNode == 0 - 1

\* container.querySelectorAll(level)[index], over the elements of positions ks
nthOf(elems, ks, level, index) ==
    LET found == SelectSeq(ks, LAMBDA k : elems[k].level = level)
    IN IF index + 1 <= Len(found) THEN found[index + 1] ELSE NoNode

\* OctoGPTSidebar.findHeadingElement: the position of the element found in
\* the container, or NoNode. Claude: an element inside a quoted user
\* message lies outside the .standard-markdown area, if there is one.
findHeadingElement(adapter, container, lookup, heading) ==
    LET all      == positions(container.elems)
        markdown == SelectSeq(all, LAMBDA k : ~container.elems[k].inUser)
    IN IF lookup = "other" THEN NoNode
       ELSE IF adapter = "claude"
       THEN nthOf(container.elems, IF container.content THEN markdown ELSE all,
                  heading.level, heading.index)
       ELSE IF adapter = "gemini"
       THEN IF ~container.content THEN NoNode
            ELSE nthOf(container.elems, all, heading.level, heading.index)
       ELSE nthOf(container.elems, all, heading.level, heading.index)

HeadingsInit ==
    /\ \E adapter \in Adapters, container \in Containers :
         \E lookup \in Lookups(adapter) :
            tree = [adapter |-> adapter, container |-> container, lookup |-> lookup]
    /\ out = [done |-> FALSE, headings |-> <<>>, resolved |-> <<>>]

\* parser.extractHeadingsFromElement(container)
ExtractHeadings ==
    /\ ~out.done
    /\ out' = [done |-> TRUE,
               headings |-> extractHeadingsFromElement(tree.adapter, tree.container),
               resolved |-> <<>>]
    /\ UNCHANGED <<now, pathname, dom, octo, hist, nav, tree, panel, store>>

\* sidebar.findHeadingElement(heading) for every heading of the turn, on the
\* tree they were extracted from
ResolveHeadings ==
    /\ out.done
    /\ Len(out.headings) > 0
    /\ Len(out.resolved) = 0
    /\ out' = [out EXCEPT !.resolved =
                 [k \in 1..Len(out.headings) |->
                    findHeadingElement(tree.adapter, tree.container, tree.lookup,
                                       out.headings[k])]]
    /\ UNCHANGED <<now, pathname, dom, octo, hist, nav, tree, panel, store>>

HeadingsNext ==
    \/ ExtractHeadings
    \/ ResolveHeadings

InitHeadings == HeadingsInit /\ IdleTimer /\ IdleNav /\ IdlePanel

SpecHeadings == InitHeadings /\ [][HeadingsNext]_vars

(***************************************************************************)
(*                   PARSER: BRANCH CLASSIFICATION                         *)
(***************************************************************************)

MaxBranchPrompts == 5     \* prompts in a classified list

\* a property of a JavaScript object that is set and true
Truthy(object, property) ==
    property \in DOMAIN object /\ object[property] = TRUE

\* the inner loop that keeps the branch start a prompt already has
RECURSIVE markInBranchOnce(_, _, _)
markInBranchOnce(prompts, i, j) ==
    IF j >= Len(prompts) THEN prompts
    ELSE IF Truthy(prompts[j + 1], "inBranch")
    THEN markInBranchOnce(prompts, i, j + 1)
    ELSE markInBranchOnce(
             [prompts EXCEPT ![j + 1] =
                 [inBranch |-> TRUE, branchStartIndex |-> i] @@ @],
             i, j + 1)

\* detectActiveBranch, the inner loop: prompts j.. are in the branch of i
RECURSIVE markInBranch(_, _, _)
markInBranch(prompts, i, j) ==
    IF j >= Len(prompts) THEN prompts
    ELSE markInBranch(
             [prompts EXCEPT ![j + 1] =
                 [inBranch |-> TRUE, branchStartIndex |-> i] @@ @],
             i, j + 1)

\* detectActiveBranch, the outer loop from prompt i on
RECURSIVE classifyFrom(_, _)
classifyFrom(prompts, i) ==
    IF i >= Len(prompts) THEN prompts
    ELSE IF prompts[i + 1].isEdited
    THEN classifyFrom(
             markInBranch([prompts EXCEPT ![i + 1] = [isBranchPoint |-> TRUE] @@ @],
                          i, i + 1),
             i + 1)
    ELSE classifyFrom(prompts, i + 1)

\* BaseParser.detectActiveBranch
detectActiveBranch(prompts) == classifyFrom(prompts, 0)

\* the prompt lists handed to the classification, as extractPromptData
\* leaves them
BranchInputs ==
    UNION {[1..n -> {[isEdited |-> e] : e \in BOOLEAN}] : n \in 0..MaxBranchPrompts}

BranchInit ==
    /\ \E prompts \in BranchInputs : tree = [prompts |-> prompts]
    /\ out = [done |-> FALSE, prompts |-> <<>>]

\* parser.detectActiveBranch() on parser.prompts
DetectActiveBranch ==
    /\ ~out.done
    /\ out' = [done |-> TRUE, prompts |-> detectActiveBranch(tree.prompts)]
    /\ UNCHANGED <<now, pathname, dom, octo, hist, nav, tree, panel, store>>

BranchNext == DetectActiveBranch

InitBranch == BranchInit /\ IdleTimer /\ IdleNav /\ IdlePanel

SpecBranch == InitBranch /\ [][BranchNext]_vars

(***************************************************************************)
(*              CONTENT SCRIPT: THE WAIT LOOPS TO THEIR END                *)
(***************************************************************************)

WaitSpan == 2200   \* the clock is followed from StartTime for WaitSpan ms

\* Time passes once the script is set up, long enough for a wait loop to
\* reach its maxWait.
TickWait ==
    /\ octo.isInitialized
    /\ ~TimerDue
    /\ now + TimeStep <= StartTime + WaitSpan
    /\ now' = now + TimeStep
    /\ UNCHANGED <<pathname, dom, octo, hist, nav, tree, out, panel, store>>

\* The page is followed with no response streaming, for as long as it stays
\* loaded (no destroy(), which SpecTimer follows).
WaitInit == TimerInit /\ ~dom.streaming

\* The first change of the page's message nodes (the MutationObserver
\* callback); later ones are not followed.
FirstMutation ==
    /\ hist.lastNotify < 0
    /\ MutationMessage

WaitNext ==
    \/ Setup
    \/ SetupResume
    \/ FirstMutation
    \/ Navigate
    \/ DebounceFire
    \/ WaitContentCheck
    \/ WaitPromptsCheck
    \/ TickWait

InitWait == WaitInit /\ IdleNav /\ IdleParse /\ IdlePanel

SpecWait == InitWait /\ [][WaitNext]_vars

\* A timer that is due fires and the clock moves on.
SpecWaitLive ==
    /\ SpecWait
    /\ WF_vars(TickWait)
    /\ WF_vars(DebounceFire)
    /\ WF_vars(WaitContentCheck)
    /\ WF_vars(WaitPromptsCheck)

(***************************************************************************)
(*                   PARSER: THE VERSION NAVIGATOR                         *)
(***************************************************************************)

MaxCounterLen == 3   \* characters of the navigator's text content

\* The characters of a navigator's text: digits, the slash, white space and
\* any other character
CounterChars == {"1", "2", "/", " ", "x"}

DigitValue(c) == IF c = "1" THEN 1 ELSE IF c = "2" THEN 2 ELSE 0 - 1

isDigit(c) == DigitValue(c) >= 0

\* parseInt of a run of digits
RECURSIVE parseInt(_)
parseInt(ds) ==
    IF Len(ds) = 0 THEN 0
    ELSE 10 * parseInt(SubSeq(ds, 1, Len(ds) - 1)) + DigitValue(ds[Len(ds)])

\* the end of the longest run of characters of the class from position i on
\* (i - 1 when there is none)
RECURSIVE runEnd(_, _, _)
runEnd(text, i, digits) ==
    IF i > Len(text) THEN i - 1
    ELSE IF (digits /\ isDigit(text[i])) \/ (~digits /\ text[i] \in Whitespace)
    THEN runEnd(text, i + 1, digits)
    ELSE i - 1

\* branchText.match(/(\d+)\s*\/\s*(\d+)/) tried at position s: no match, or
\* the two groups
matchAt(text, s) ==
    LET e1 == runEnd(text, s, TRUE)
        w1 == runEnd(text, e1 + 1, FALSE)
        w2 == runEnd(text, w1 + 2, FALSE)
        e2 == runEnd(text, w2 + 1, TRUE)
    IN IF /\ e1 >= s
          /\ w1 + 1 <= Len(text) /\ text[w1 + 1] = "/"
          /\ e2 >= w2 + 1
       THEN << <<SubSeq(text, s, e1), SubSeq(text, w2 + 1, e2)>> >>
       ELSE <<>>

\* the leftmost match of the counter pattern in the text
RECURSIVE matchCounter(_, _)
matchCounter(text, s) ==
    IF s > Len(text) THEN <<>>
    ELSE IF matchAt(text, s) # <<>> THEN matchAt(text, s)
    ELSE matchCounter(text, s + 1)

NoButton == "null"

\* A branch info record; isNull: getBranchInfo returned null. A field the
\* returned object does not have holds NoButton, 0 or TRUE.
BranchInfo(isNull, hasBranches, prevButton, nextButton, hasMatch, current, total) ==
    [isNull |-> isNull, hasBranches |-> hasBranches,
     prevButton |-> prevButton, nextButton |-> nextButton,
     hasMatch |-> hasMatch, current |-> current, total |-> total]

\* ChatGPTParser.getBranchInfo that keeps the reference of a disabled button
chatgptGetBranchInfoAnyButton(n) ==
    IF ~n.turn THEN BranchInfo(TRUE, FALSE, NoButton, NoButton, TRUE, 0, 0)
    ELSE IF n.prev = "absent" /\ n.next = "absent"
    THEN BranchInfo(FALSE, FALSE, NoButton, NoButton, TRUE, 0, 0)
    ELSE LET prevButton == IF n.prev # "absent" THEN "prev" ELSE NoButton
             nextButton == IF n.next # "absent" THEN "next" ELSE NoButton
             match == matchCounter(n.counter, 1)
         IN IF match # <<>>
            THEN BranchInfo(FALSE, TRUE, prevButton, nextButton, TRUE,
                            parseInt(match[1][1]), parseInt(match[1][2]))
            ELSE BranchInfo(FALSE, TRUE, prevButton, nextButton, FALSE, 0, 0)

\* ChatGPTParser.getBranchInfo on a turn's navigator n: turn tells that the
\* element lies in a turn container, prev / next are the buttons (absent,
\* enabled, disabled), counter the text content of their parent
chatgptGetBranchInfo(n) ==
    IF ~n.turn THEN BranchInfo(TRUE, FALSE, NoButton, NoButton, TRUE, 0, 0)
    ELSE IF n.prev = "absent" /\ n.next = "absent"
    THEN BranchInfo(FALSE, FALSE, NoButton, NoButton, TRUE, 0, 0)
    ELSE LET prevButton == IF n.prev = "enabled" THEN "prev" ELSE NoButton
             nextButton == IF n.next = "enabled" THEN "next" ELSE NoButton
             match == matchCounter(n.counter, 1)
         IN IF match # <<>>
            THEN BranchInfo(FALSE, TRUE, prevButton, nextButton, TRUE,
                            parseInt(match[1][1]), parseInt(match[1][2]))
            ELSE BranchInfo(FALSE, TRUE, prevButton, nextButton, FALSE, 0, 0)

\* getBranchInfo of the three parsers on a navigator
branchInfoOf(adapter, n) ==
    IF adapter = "chatgpt" THEN chatgptGetBranchInfo(n)
    ELSE BranchInfo(FALSE, FALSE, NoButton, NoButton, TRUE, 0, 0)

\* branchInfo?.hasBranches ?? false of extractPromptData
isEditedOf(branchInfo) == ~branchInfo.isNull /\ branchInfo.hasBranches

ButtonStates == {"absent", "enabled", "disabled"}

Navigators ==
    {[turn |-> t, prev |-> p, next |-> n, counter |-> c] :
        t \in BOOLEAN, p \in ButtonStates, n \in ButtonStates,
        c \in UNION {[1..k -> CounterChars] : k \in 0..MaxCounterLen}}

\* tree: the adapter and the navigator of the turn of a user element;
\* out: the branch info and the isEdited flag extractPromptData gets
BranchInfoInit ==
    /\ \E adapter \in Adapters, n \in Navigators :
          tree = [adapter |-> adapter, navigator |-> n]
    /\ out = [done |-> FALSE]

GetBranchInfo ==
    /\ ~out.done
    /\ LET branchInfo == branchInfoOf(tree.adapter, tree.navigator)
       IN out' = [done |-> TRUE, branchInfo |-> branchInfo,
                  isEdited |-> isEditedOf(branchInfo)]
    /\ UNCHANGED <<tree, now, pathname, dom, octo, hist, nav, panel, store>>

BranchInfoNext == GetBranchInfo

InitBranchInfo == BranchInfoInit /\ IdleTimer /\ IdleNav /\ IdlePanel

SpecBranchInfo == InitBranchInfo /\ [][BranchInfoNext]_vars

(***************************************************************************)
(*            SIDEBAR: PANEL, CONTENT STATES, PERSISTED SETTINGS           *)
(***************************************************************************)

\* this.config of the constructor, and the range of the scroll duration
defaultWidth == 200
minWidth == 120
maxWidth == 400
scrollDuration == 100
maxScrollDuration == 600

\* Widths and durations the events carry are multiples of these steps away
\* from the ends of the valid ranges.
WidthStep == 140
ScrollStep == 300

\* Hide timers followed beside the one hideTimeout holds
MaxUnheld == 1

\* window.innerWidth - e.clientX of a mousemove during a drag
DragWidths == {minWidth - WidthStep, minWidth + WidthStep, maxWidth + WidthStep}

\* The value of the settings slider / input: the default, a value below
\* the range and one above it
ScrollInputs == {0 - ScrollStep, scrollDuration, maxScrollDuration + ScrollStep}

\* chrome.storage.local: the keys present and their values (a value whose
\* key is absent is not read).
StoreKeys == {"sidebarPinned", "sidebarWidth", "scrollDuration"}

Has(s, key) == key \in s.keys

\* What an earlier page may have left: values at an end of the valid range
\* and just outside either end. (The other end gets into the store by a
\* drag or a change of the setting that is clamped to it and saved.)
StoredWidths == {minWidth - 1, minWidth, maxWidth + 1}

StoredDurations == {0 - 1, maxScrollDuration, maxScrollDuration + 1}

StoreStates ==
    { [keys |-> k,
       sidebarPinned |-> IF "sidebarPinned" \in k THEN b ELSE FALSE,
       sidebarWidth |-> IF "sidebarWidth" \in k THEN w ELSE 0,
       scrollDuration |-> IF "scrollDuration" \in k THEN d ELSE 0] :
      k \in SUBSET StoreKeys, b \in BOOLEAN, w \in StoredWidths,
      d \in StoredDurations }

\* The object the constructor builds, with the DOM it drives: marginRight is
\* the host container's right margin in px (0: none), slabHidden the
\* trigger slab's hidden class, transition a transform transition of the
\* panel under way. hideTimeout tells whether the field is null or holds a
\* timer that is pending or one that will not run (fired or cleared); unheld
\* counts the pending hide timers whose id the field holds no longer.
\* awaitingLoad: init() stands at 'await this.loadState()'; created: the
\* root container is there (createSidebar has built it and destroy() has not
\* removed it); destroyed: destroy() has run. The three display fields hold
\* what the template of createSidebar gives until render() assigns them.
\* pointer is where the mouse pointer is; fresh and readFailed tell that
\* init() has just run to its end and whether its read failed.
OctoGPTSidebar ==
    [isVisible |-> FALSE, isPinned |-> FALSE,
     isLoading |-> TRUE, loadingState |-> "waiting", isNewChat |-> FALSE,
     sidebarPrompts |-> 0,
     width |-> defaultWidth, scrollDuration |-> scrollDuration,
     isResizing |-> FALSE, isHovering |-> FALSE, hideTimeout |-> "null",
     unheld |-> 0, awaitingLoad |-> TRUE, created |-> FALSE,
     destroyed |-> FALSE,
     marginRight |-> 0, slabHidden |-> FALSE, transition |-> FALSE,
     loadingDisplay |-> "flex", emptyDisplay |-> "none",
     emptyText |-> "No prompts found", listDisplay |-> "none",
     pointer |-> "outside", fresh |-> FALSE, readFailed |-> FALSE]

\* A load that takes a stored width strictly inside the range only
loadStateStrict(p, s, fails) ==
    IF fails
    THEN [p EXCEPT !.isPinned = FALSE, !.isVisible = FALSE,
                   !.width = 200, !.scrollDuration = 100]
    ELSE LET pinned == IF Has(s, "sidebarPinned") THEN s.sidebarPinned ELSE FALSE
             widthOk == /\ Has(s, "sidebarWidth")
                        /\ s.sidebarWidth > minWidth
                        /\ s.sidebarWidth < maxWidth
             durationOk == /\ Has(s, "scrollDuration")
                           /\ s.scrollDuration >= 0
                           /\ s.scrollDuration <= maxScrollDuration
         IN [p EXCEPT !.isPinned = pinned, !.isVisible = pinned,
                      !.width = IF widthOk THEN s.sidebarWidth ELSE @,
                      !.scrollDuration = IF durationOk THEN s.scrollDuration ELSE @]

\* A load that drops the stored scroll duration with an invalid width
loadStateCoupled(p, s, fails) ==
    IF fails
    THEN [p EXCEPT !.isPinned = FALSE, !.isVisible = FALSE,
                   !.width = 200, !.scrollDuration = 100]
    ELSE LET pinned == IF Has(s, "sidebarPinned") THEN s.sidebarPinned ELSE FALSE
             widthOk == /\ Has(s, "sidebarWidth")
                        /\ s.sidebarWidth # 0
                        /\ s.sidebarWidth >= minWidth
                        /\ s.sidebarWidth <= maxWidth
             durationOk == /\ widthOk
                           /\ Has(s, "scrollDuration")
                           /\ s.scrollDuration >= 0
                           /\ s.scrollDuration <= maxScrollDuration
         IN [p EXCEPT !.isPinned = pinned, !.isVisible = pinned,
                      !.width = IF widthOk THEN s.sidebarWidth ELSE @,
                      !.scrollDuration = IF durationOk THEN s.scrollDuration ELSE @]

\* OctoGPTSidebar.loadState: s is the store, fails tells that the read throws
loadState(p, s, fails) ==
    IF fails
    THEN [p EXCEPT !.isPinned = FALSE, !.isVisible = FALSE,
                   !.width = 200, !.scrollDuration = 100]
    ELSE LET pinned == IF Has(s, "sidebarPinned") THEN s.sidebarPinned ELSE FALSE
             widthOk == /\ Has(s, "sidebarWidth")
                        /\ s.sidebarWidth # 0
                        /\ s.sidebarWidth >= minWidth
                        /\ s.sidebarWidth <= maxWidth
             durationOk == /\ Has(s, "scrollDuration")
                           /\ s.scrollDuration >= 0
                           /\ s.scrollDuration <= maxScrollDuration
         IN [p EXCEPT !.isPinned = pinned, !.isVisible = pinned,
                      !.width = IF widthOk THEN s.sidebarWidth ELSE @,
                      !.scrollDuration = IF durationOk THEN s.scrollDuration ELSE @]

\* OctoGPTSidebar.saveState: what chrome.storage.local.set leaves in the
\* store s. When the write rejects (or the page goes before it lands) the
\* catch branch logs the error and the store keeps what it held.
saveState(p, s, rejects) ==
    IF rejects THEN s
    ELSE [keys |-> StoreKeys, sidebarPinned |-> p.isPinned,
          sidebarWidth |-> p.width, scrollDuration |-> p.scrollDuration]

\* OctoGPTSidebar.adjustSiteLayout
adjustSiteLayout(p, width) ==
    IF ~p.isPinned THEN [p EXCEPT !.marginRight = 0]
    ELSE IF width > 0 THEN [p EXCEPT !.marginRight = width]
    ELSE [p EXCEPT !.marginRight = 0]

\* OctoGPTSidebar.updateVisibility
updateVisibility(p) ==
    LET q == [p EXCEPT !.transition = TRUE]
    IN IF ~p.created THEN p
       ELSE IF q.isVisible
       THEN LET r == [q EXCEPT !.slabHidden = TRUE]
            IN IF r.isPinned THEN adjustSiteLayout(r, r.width) ELSE r
       ELSE IF q.isPinned THEN adjustSiteLayout(q, 0) ELSE q

\* OctoGPTSidebar.showSidebar
showSidebar(p) ==
    IF p.isVisible THEN p
    ELSE updateVisibility([p EXCEPT !.slabHidden = TRUE, !.isVisible = TRUE])

\* OctoGPTSidebar.hideSidebar
hideSidebar(p) ==
    IF ~p.isVisible THEN p
    ELSE updateVisibility([p EXCEPT !.isVisible = FALSE])

\* A render that tests the loading flag before the new-chat flag
renderContentSpinnerFirst(p) ==
    IF p.isLoading /\ p.sidebarPrompts = 0
    THEN [p EXCEPT !.loadingDisplay = "flex", !.emptyDisplay = "none",
                   !.listDisplay = "none"]
    ELSE IF p.isNewChat /\ p.sidebarPrompts = 0
    THEN [p EXCEPT !.loadingDisplay = "none", !.emptyDisplay = "block",
                   !.emptyText = "Start a conversation to see prompts here",
                   !.listDisplay = "none"]
    ELSE IF p.sidebarPrompts = 0
    THEN [p EXCEPT !.loadingDisplay = "none", !.emptyDisplay = "block",
                   !.emptyText = "No prompts found", !.listDisplay = "none"]
    ELSE [p EXCEPT !.loadingDisplay = "none", !.emptyDisplay = "none",
                   !.listDisplay = "flex"]

\* OctoGPTSidebar.render, the content state it displays
renderContent(p) ==
    IF p.isNewChat /\ p.sidebarPrompts = 0
    THEN [p EXCEPT !.loadingDisplay = "none", !.emptyDisplay = "block",
                   !.emptyText = "Start a conversation to see prompts here",
                   !.listDisplay = "none"]
    ELSE IF p.isLoading /\ p.sidebarPrompts = 0
    THEN [p EXCEPT !.loadingDisplay = "flex", !.emptyDisplay = "none",
                   !.listDisplay = "none"]
    ELSE IF p.sidebarPrompts = 0
    THEN [p EXCEPT !.loadingDisplay = "none", !.emptyDisplay = "block",
                   !.emptyText = "No prompts found", !.listDisplay = "none"]
    ELSE [p EXCEPT !.loadingDisplay = "none", !.emptyDisplay = "none",
                   !.listDisplay = "flex"]

\* OctoGPTSidebar.createSidebar: the root container is built, the first
\* updateVisibility runs no transition, and initSlabVisibility sets the
\* slab's class
createSidebar(p) ==
    LET q == updateVisibility([p EXCEPT !.created = TRUE])
    IN [q EXCEPT !.transition = FALSE,
                 !.slabHidden = q.isPinned \/ q.isVisible]

\* OctoGPTSidebar.init from its await on, on the object p as the wait left
\* it: loadState assigns what it read, then createSidebar and render()
init(p, s, fails) ==
    LET q == renderContent(createSidebar(loadState(p, s, fails)))
    IN [q EXCEPT !.awaitingLoad = FALSE, !.fresh = TRUE, !.readFailed = fails]

\* OctoGPTSidebar.render -> createPromptItem, its effect on the traversal
\* state n
renderPrompts(n) == [n EXCEPT !.collapsedPrompts = render(n.prompts, @)]

\* the traversal state the constructor leaves
NewSidebar ==
    With([prompts |-> <<>>, currentPromptIndex |-> -1,
          collapsedPrompts |-> {}, navigationIndex |-> -1,
          flatNavigationList |-> <<>>, scroll |-> NoItem], NoEvent)

\* A clamp that bounds the width from above only
clampWidthNoMin(newWidth) ==
    IF maxWidth < newWidth THEN maxWidth ELSE newWidth

\* Math.max(minWidth, Math.min(maxWidth, newWidth)) of handleResizeMove
clampWidth(newWidth) ==
    LET m == IF maxWidth < newWidth THEN maxWidth ELSE newWidth
    IN IF minWidth > m THEN minWidth ELSE m

\* Math.max(0, Math.min(600, value)) of handleScrollDurationChange
clampDuration(value) ==
    LET m == IF maxScrollDuration < value THEN maxScrollDuration ELSE value
    IN IF 0 > m THEN 0 ELSE m

\* clearTimeout(this.hideTimeout) when one is held
clearHideTimeout(p) ==
    IF p.hideTimeout # "null" THEN [p EXCEPT !.hideTimeout = "null"] ELSE p

\* A handler has run since init()
Handled(p) == [p EXCEPT !.fresh = FALSE, !.readFailed = FALSE]

\* OctoGPTSidebar.destroy: the document's listeners and the root container
\* are removed, if they are there, and the timer hideTimeout holds is
\* cleared; the field keeps the id of the timer, which will not run. An
\* init() that stands at its await goes on afterwards.
destroy(p) ==
    [p EXCEPT !.destroyed = TRUE, !.created = FALSE,
              !.hideTimeout = IF @ = "pending" THEN "fired" ELSE @]

\* OctoGPT.setup has built the object and called init(), which stands at
\* its await; the store holds what an earlier page left
PanelInit ==
    /\ store \in StoreStates
    /\ panel = OctoGPTSidebar
    /\ nav = NewSidebar

\* The page is loaded again: a new object, its init() at the await
Reload ==
    /\ panel' = OctoGPTSidebar
    /\ nav' = NewSidebar
    /\ UNCHANGED <<store, timerVars, parseVars>>

\* The read of the store is over and init() goes on, whatever has been
\* called on the object since
InitResume ==
    /\ panel.awaitingLoad
    /\ \E fails \in BOOLEAN : panel' = init(panel, store, fails)
    /\ nav' = renderPrompts(nav)
    /\ UNCHANGED <<store, timerVars, parseVars>>

\* mouseenter on the trigger slab, which is there when not hidden
handleSlabMouseEnter ==
    /\ panel.created
    /\ panel.pointer # "slab"
    /\ ~panel.slabHidden
    /\ LET p == [panel EXCEPT !.pointer = "slab"]
       IN panel' = Handled(IF p.isPinned THEN p
                           ELSE showSidebar([clearHideTimeout(p) EXCEPT
                                                 !.isHovering = TRUE]))
    /\ UNCHANGED <<store, timerVars, navVars, parseVars>>

\* The pointer leaves the slab for the page: the slab has no mouseleave
\* listener
SlabLeave ==
    /\ panel.created
    /\ panel.pointer = "slab"
    /\ panel' = Handled([panel EXCEPT !.pointer = "outside"])
    /\ UNCHANGED <<store, timerVars, navVars, parseVars>>

\* mouseenter on the panel, which is on screen when visible
handleSidebarMouseEnter ==
    /\ panel.created
    /\ panel.pointer # "panel"
    /\ panel.isVisible
    /\ LET p == [panel EXCEPT !.pointer = "panel"]
       IN panel' = Handled(IF p.isPinned THEN p
                           ELSE [clearHideTimeout(p) EXCEPT !.isHovering = TRUE])
    /\ UNCHANGED <<store, timerVars, navVars, parseVars>>

\* mouseleave on the panel
\* mouseleave on the panel: the new timer takes the place of the one
\* hideTimeout holds, which is not cleared and stays pending
handleSidebarMouseLeave ==
    /\ panel.created
    /\ panel.pointer = "panel"
    /\ panel.isPinned \/ panel.isResizing \/ panel.hideTimeout # "pending"
          \/ panel.unheld < MaxUnheld
    /\ LET p == [panel EXCEPT !.pointer = "outside"]
       IN panel' = Handled(IF p.isPinned \/ p.isResizing THEN p
                           ELSE [p EXCEPT !.isHovering = FALSE,
                                          !.unheld = IF p.hideTimeout = "pending"
                                                     THEN @ + 1 ELSE @,
                                          !.hideTimeout = "pending"])
    /\ UNCHANGED <<store, timerVars, navVars, parseVars>>

\* The body of the callback handleSidebarMouseLeave gave to setTimeout
hideCallback(p) ==
    IF ~p.isHovering /\ ~p.isResizing THEN hideSidebar(p) ELSE p

\* The timer hideTimeout holds fires
hideTimeoutCallback ==
    /\ panel.hideTimeout = "pending"
    /\ panel' = Handled(hideCallback([panel EXCEPT !.hideTimeout = "fired"]))
    /\ UNCHANGED <<store, timerVars, navVars, parseVars>>

\* A timer hideTimeout holds no longer fires; destroy() has not cleared it
unheldTimeoutCallback ==
    /\ panel.unheld > 0
    /\ panel' = Handled(hideCallback([panel EXCEPT !.unheld = @ - 1]))
    /\ UNCHANGED <<store, timerVars, navVars, parseVars>>

\* OctoGPTSidebar.destroy, called by OctoGPT.destroy
SidebarDestroy ==
    /\ ~panel.destroyed
    /\ panel' = Handled(destroy(panel))
    /\ UNCHANGED <<store, timerVars, navVars, parseVars>>

\* transitionend of the panel's transform
handleSidebarTransitionEnd ==
    /\ panel.created
    /\ panel.transition
    /\ LET p == [panel EXCEPT !.transition = FALSE]
       IN panel' = Handled(IF ~p.isVisible /\ ~p.isPinned
                           THEN [p EXCEPT !.slabHidden = FALSE] ELSE p)
    /\ UNCHANGED <<store, timerVars, navVars, parseVars>>

\* OctoGPTSidebar.togglePin: the pin button, or Cmd/Ctrl+H through toggle()
togglePin ==
    /\ panel.created
    /\ LET p == [panel EXCEPT !.isPinned = ~@]
           q == IF p.isPinned
                THEN LET r == IF ~p.isVisible
                              THEN updateVisibility([p EXCEPT !.isVisible = TRUE])
                              ELSE adjustSiteLayout(p, p.width)
                     IN [r EXCEPT !.slabHidden = TRUE]
                ELSE LET r == adjustSiteLayout(p, 0)
                     IN IF r.pointer # "panel"
                        THEN hideSidebar([r EXCEPT !.isHovering = FALSE])
                        ELSE [r EXCEPT !.isHovering = TRUE]
       IN /\ panel' = Handled(q)
          /\ \E rejects \in BOOLEAN : store' = saveState(q, store, rejects)
    /\ UNCHANGED <<timerVars, navVars, parseVars>>

\* mousedown on the resize handle, a part of the panel
handleResizeStart ==
    /\ panel.created
    /\ panel.pointer = "panel"
    /\ ~panel.isResizing
    /\ panel' = Handled([panel EXCEPT !.isResizing = TRUE])
    /\ UNCHANGED <<store, timerVars, navVars, parseVars>>

\* mousemove on the document during a drag
handleResizeMove ==
    /\ panel.created
    /\ panel.isResizing
    /\ \E newWidth \in DragWidths :
          LET p == [panel EXCEPT !.width = clampWidth(newWidth)]
          IN panel' = Handled(adjustSiteLayout(p, p.width))
    /\ UNCHANGED <<store, timerVars, navVars, parseVars>>

\* mouseup on the document during a drag
handleResizeEnd ==
    /\ panel.created
    /\ panel.isResizing
    /\ LET p == renderContent([panel EXCEPT !.isResizing = FALSE])
       IN /\ panel' = Handled(p)
          /\ \E rejects \in BOOLEAN : store' = saveState(p, store, rejects)
    /\ nav' = renderPrompts(nav)
    /\ UNCHANGED <<timerVars, parseVars>>

\* OctoGPTSidebar.handleScrollDurationChange
handleScrollDurationChange ==
    /\ panel.created
    /\ \E value \in ScrollInputs :
          LET p == [panel EXCEPT !.scrollDuration = clampDuration(value)]
          IN /\ panel' = Handled(p)
             /\ \E rejects \in BOOLEAN : store' = saveState(p, store, rejects)
    /\ UNCHANGED <<timerVars, navVars, parseVars>>

\* OctoGPTSidebar.setLoading
SetLoading ==
    /\ ~panel.destroyed /\ ~panel.awaitingLoad
    /\ \E isLoading \in BOOLEAN :
          LET p == [panel EXCEPT !.isLoading = isLoading,
                                 !.loadingState = IF isLoading THEN @ ELSE "null"]
          IN panel' = Handled(renderContent(p))
    /\ nav' = renderPrompts(nav)
    /\ UNCHANGED <<store, timerVars, parseVars>>

\* OctoGPTSidebar.setLoadingState, which renders for a state other than null
SetLoadingState ==
    /\ ~panel.destroyed /\ ~panel.awaitingLoad
    /\ \E state \in {"waiting", "parsing", "null"} :
          LET p == setLoadingState(panel, state)
          IN /\ panel' = Handled(IF state # "null" THEN renderContent(p) ELSE p)
             /\ nav' = IF state # "null" THEN renderPrompts(nav) ELSE nav
    /\ UNCHANGED <<store, timerVars, parseVars>>

\* OctoGPTSidebar.setNewChat
SetNewChat ==
    /\ ~panel.destroyed /\ ~panel.awaitingLoad
    /\ \E isNew \in BOOLEAN :
          panel' = Handled(renderContent(setNewChat(panel, isNew)))
    /\ nav' = renderPrompts(nav)
    /\ UNCHANGED <<store, timerVars, parseVars>>


\* OctoGPTSidebar.updatePrompts: its loading flags, the list and its render
UpdatePromptCount ==
    /\ ~panel.destroyed /\ ~panel.awaitingLoad
    /\ \E ps \in {l \in PromptLists : Len(l) <= MaxDomPrompts} :
          /\ panel' = Handled(renderContent(updatePromptsFlags(panel, Len(ps))))
          /\ nav' = With(updatePrompts(StateOf(nav), ps), NoEvent)
    /\ UNCHANGED <<store, timerVars, parseVars>>

\* click on the toggle button of a prompt of the rendered list
PanelToggleClick ==
    /\ panel.created
    /\ ToggleClick

PanelNext ==
    \/ Reload
    \/ InitResume
    \/ handleSlabMouseEnter
    \/ SlabLeave
    \/ handleSidebarMouseEnter
    \/ handleSidebarMouseLeave
    \/ hideTimeoutCallback
    \/ unheldTimeoutCallback
    \/ handleSidebarTransitionEnd
    \/ togglePin
    \/ handleResizeStart
    \/ handleResizeMove
    \/ handleResizeEnd
    \/ handleScrollDurationChange
    \/ SidebarDestroy

\* The calls the content script makes on the panel to tell what the
\* conversation holds; they read and write the content flags, the prompt
\* list and the three content elements, and their render() opens a
\* generating prompt the user has collapsed.
ContentNext ==
    \/ Reload
    \/ InitResume
    \/ SetLoading
    \/ SetLoadingState
    \/ SetNewChat
    \/ UpdatePromptCount
    \/ PanelToggleClick
    \/ SidebarDestroy

InitPanel == PanelInit /\ IdleTimer /\ IdleParse

SpecPanel == InitPanel /\ [][PanelNext]_vars

SpecContent == InitPanel /\ [][ContentNext]_vars

\* setTimeout runs its callback: a pending hide timer fires; the read of
\* the store comes to an end
SpecPanelLive ==
    /\ SpecPanel
    /\ WF_vars(hideTimeoutCallback)
    /\ WF_vars(unheldTimeoutCallback)
    /\ WF_vars(InitResume)

(***************************************************************************)
(*          SIDEBAR: THE SCROLL ANIMATION OF THE MAIN VIEWPORT             *)
(***************************************************************************)

FrameMs    == 50    \* shortest time between two animation frames
MaxReveals == 2     \* scrollToElement calls followed
MaxTarget  == 1     \* the furthest target offset, in steps of TargetStep
MaxFrames  == 3     \* animation frames followed

\* Target offsets lie TargetStep pixels apart.
TargetStep == 64 ^ MaxReveals

RECURSIVE gcd(_, _)
gcd(a, b) == IF b = 0 THEN a ELSE gcd(b, a % b)

\* Offsets, distances and progress are fractions <<n, d>> in lowest terms with
\* d > 0: the code computes them in floating point and rounds nothing. (With
\* frames FrameMs apart and durations of 2 and 4 FrameMs every value met is
\* a multiple of a power of 1/2, which floating point holds exactly.)
Frac(n, d) ==
    LET g == gcd(Abs(n), d)
    IN <<n \div g, d \div g>>

Whole(n) == <<n, 1>>

plus(x, y) ==
    LET g == gcd(x[2], y[2])
    IN Frac(x[1] * (y[2] \div g) + y[1] * (x[2] \div g), (x[2] \div g) * y[2])

minus(x, y) == plus(x, <<0 - y[1], y[2]>>)

times(x, y) ==
    LET g == gcd(Abs(x[1]), y[2])
        h == gcd(Abs(y[1]), x[2])
    IN Frac((x[1] \div g) * (y[1] \div h), (x[2] \div h) * (y[2] \div g))

\* elementOffsetInContainer - containerRect.height / 2 + elementRect.height / 2
\* of the elements a reveal may be asked for; an element near the top of the
\* conversation gives a negative value, one of odd height half a pixel
TargetScrolls ==
    {Whole(k * TargetStep) : k \in (0 - 1)..MaxTarget} \cup {Frac(TargetStep + 1, 2)}

\* values the settings slider may hand to handleScrollDurationChange
DurationInputs == {0 - FrameMs, 0, 2 * FrameMs, 4 * FrameMs}

\* time between two animation frames
FrameGaps == {FrameMs, 2 * FrameMs}

\* Math.min(elapsed / duration, 1)
progressOf(elapsed, duration) ==
    IF elapsed >= duration THEN Whole(1) ELSE Frac(elapsed, duration)

\* easeOutCubic: 1 - Math.pow(1 - t, 3)
easeOutCubic(t) ==
    LET u == minus(Whole(1), t)
    IN minus(Whole(1), times(u, times(u, u)))

\* distance * eased
scaled(distance, eased) == times(distance, eased)

\* what the frame callback of animation a assigns to container.scrollTop
stepTop(a, currentTime) ==
    plus(a.startTop,
         scaled(a.distance,
                easeOutCubic(progressOf(currentTime - a.startTime, a.duration))))

\* whether the callback asks for another frame: progress < 1
stepAgain(a, currentTime) ==
    LET t == progressOf(currentTime - a.startTime, a.duration)
    IN t[1] < t[2]

\* smoothScrollTo.step, the frame callback of animation a
step(page, a, currentTime) ==
    LET p == [page EXCEPT !.scrollTop = stepTop(a, currentTime)]
    IN IF stepAgain(a, currentTime)
       THEN [p EXCEPT !.callbacks = Append(@, a)]
       ELSE p

\* one animation frame: the callbacks requested before it run in the order
\* of their requests; a callback requested during the frame runs in the next
RECURSIVE runCallbacks(_, _, _)
runCallbacks(page, cbs, currentTime) ==
    IF cbs = <<>> THEN page
    ELSE runCallbacks(step(page, Head(cbs), currentTime), Tail(cbs), currentTime)

\* OctoGPTSidebar.smoothScrollTo; id names the call
smoothScrollTo(page, targetTop, duration, id) ==
    IF duration <= 0
    THEN [page EXCEPT !.scrollTop = targetTop]
    ELSE [page EXCEPT !.callbacks =
             Append(@, [id        |-> id,
                        startTop  |-> page.scrollTop,
                        distance  |-> minus(targetTop, page.scrollTop),
                        startTime |-> page.time,
                        duration  |-> duration])]

\* Math.max(0, targetScroll)
max0(x) == IF x[1] > 0 THEN x ELSE Whole(0)

\* OctoGPTSidebar.scrollToElement. found: findScrollContainer() returns a
\* container. When it returns null the element is handed to
\* element.scrollIntoView({behavior: 'smooth'}), whatever the configured
\* duration: the code assigns no offset and requests no frame.
scrollToElement(page, found, targetScroll, id) ==
    IF found
    THEN smoothScrollTo(page, max0(targetScroll), page.scrollDuration, id)
    ELSE [page EXCEPT !.scrollIntoView = @ + 1]

\* The page: the viewport offset, config.scrollDuration, performance.now(),
\* the frame callbacks requested and the calls of scrollIntoView made.
\* History: the reveals so far, the target of the last, the requests whose
\* animation had reached its target before the last step, and what the last
\* step wrote.
ScrollInit ==
    /\ \E top \in {k * TargetStep : k \in 0..MaxTarget},
          duration \in {clampDuration(v) : v \in DurationInputs} :
          tree = [scrollTop      |-> Whole(top),
                  scrollDuration |-> duration,
                  time           |-> 0,
                  frames         |-> 0,
                  callbacks      |-> <<>>,
                  scrollIntoView |-> 0]
    /\ out = [requests |-> 0, target |-> Whole(0 - 1), instant |-> FALSE,
              pending |-> 0, reached |-> {}, reachedBefore |-> {},
              writes |-> <<>>]

\* a click or a traversal step reveals an element
Reveal ==
    /\ out.requests < MaxReveals
    /\ \E targetScroll \in TargetScrolls, found \in BOOLEAN :
          LET id == out.requests + 1
              p  == scrollToElement(tree, found, targetScroll, id)
          IN /\ tree' = p
             /\ out' = [out EXCEPT
                   !.requests = id,
                   !.target = max0(targetScroll),
                   !.instant = tree.scrollDuration <= 0,
                   !.pending = Len(tree.callbacks),
                   !.reachedBefore = out.reached,
                   !.reached = IF found /\ tree.scrollDuration <= 0
                               THEN @ \cup {id} ELSE @,
                   !.writes = <<>>]
    /\ UNCHANGED <<timerVars, navVars, panelVars>>

\* the browser runs the frame callbacks
Frame ==
    /\ tree.callbacks # <<>>
    /\ tree.frames < MaxFrames
    /\ \E gap \in FrameGaps :
          LET t   == tree.time + gap
              cbs == tree.callbacks
              p   == runCallbacks([tree EXCEPT !.time = t, !.frames = @ + 1,
                                               !.callbacks = <<>>], cbs, t)
          IN /\ tree' = p
             /\ out' = [out EXCEPT
                   !.instant = FALSE,
                   !.reachedBefore = out.reached,
                   !.reached = @ \cup {cbs[i].id : i \in
                                  {j \in DOMAIN cbs :
                                     \A k \in DOMAIN p.callbacks :
                                        p.callbacks[k].id # cbs[j].id}},
                   !.writes = [i \in DOMAIN cbs |->
                                 [id       |-> cbs[i].id,
                                  elapsed  |-> t - cbs[i].startTime,
                                  duration |-> cbs[i].duration,
                                  target   |-> plus(cbs[i].startTop, cbs[i].distance),
                                  value    |-> step(tree, cbs[i], t).scrollTop]]]
    /\ UNCHANGED <<timerVars, navVars, panelVars>>

\* OctoGPTSidebar.handleScrollDurationChange, as far as the page sees it
ScrollDurationChange ==
    /\ \E value \in DurationInputs :
          tree' = [tree EXCEPT !.scrollDuration = clampDuration(value)]
    /\ out' = [out EXCEPT !.instant = FALSE, !.writes = <<>>,
                          !.reachedBefore = out.reached]
    /\ UNCHANGED <<timerVars, navVars, panelVars>>

ScrollNext ==
    \/ Reveal
    \/ Frame
    \/ ScrollDurationChange

InitScroll == ScrollInit /\ IdleTimer /\ IdleNav /\ IdlePanel

SpecScroll == InitScroll /\ [][ScrollNext]_vars

(***************************************************************************)
(*               SIDEBAR: REVEALING AN ITEM IN THE PANEL                   *)
(***************************************************************************)

MaxPanelRows == 5     \* rows of the rendered prompt list
RowHalf      == 10    \* half the height of a row, in pixels
BandHalf     == 25    \* half the height of the panel's content box
WheelPx      == 10    \* one step of the user's scroll wheel over the panel
TopPadding   == 16    \* scrollSidebarToLatestPrompt: padding from the top

\* the largest offset the content box can be scrolled to
maxScrollTop(rows) ==
    IF rows * 2 * RowHalf > 2 * BandHalf
    THEN rows * 2 * RowHalf - 2 * BandHalf ELSE 0

\* what the content box keeps of an assigned scrollTop
clampScrollTop(rows, top) ==
    IF top > maxScrollTop(rows) THEN maxScrollTop(rows)
    ELSE IF top < 0 THEN 0 ELSE top

\* getBoundingClientRect of a row, relative to the top of the content box
rowRect(scrollTop, row) ==
    [top    |-> row * 2 * RowHalf - scrollTop,
     bottom |-> row * 2 * RowHalf - scrollTop + 2 * RowHalf,
     height |-> 2 * RowHalf]

\* What render() may leave in the prompt list: rows item rows (prompt items
\* and the heading items of expanded prompts), prompts of them prompt items,
\* the last prompt's item in row lastRow. Without prompts the list is empty.
Layouts ==
    {[rows |-> 0, prompts |-> 0, lastRow |-> 0]} \cup
    {y \in [rows : 1..MaxPanelRows, prompts : 1..MaxPanelRows,
            lastRow : 0..(MaxPanelRows - 1)] :
        y.prompts - 1 <= y.lastRow /\ y.lastRow < y.rows}

\* render() rebuilds the prompt list; the content box keeps of its offset
\* what the new list allows
renderList(p, layout) ==
    [rows      |-> layout.rows,
     prompts   |-> layout.prompts,
     lastRow   |-> layout.lastRow,
     scrollTop |-> clampScrollTop(layout.rows, p.scrollTop)]

\* OctoGPTSidebar.scrollSidebarToLatestPrompt
scrollSidebarToLatestPrompt(p) ==
    IF p.prompts = 0 THEN p
    ELSE LET targetRect == rowRect(p.scrollTop, p.lastRow)
             targetOffsetInContent == p.scrollTop + targetRect.top
             targetScroll == targetOffsetInContent - TopPadding
         IN [p EXCEPT !.scrollTop =
                clampScrollTop(p.rows, IF targetScroll > 0 THEN targetScroll ELSE 0)]

\* OctoGPTSidebar.scrollSidebarToItem; a row that is not rendered gives no
\* target element
scrollSidebarToItem(p, row) ==
    IF row >= p.rows THEN p
    ELSE LET targetRect == rowRect(p.scrollTop, row)
         IN IF targetRect.top < 0 \/ targetRect.bottom > 2 * BandHalf
            THEN LET targetOffsetInContent == p.scrollTop + targetRect.top
                     targetScroll == targetOffsetInContent - BandHalf
                                       + targetRect.height \div 2
                 IN [p EXCEPT !.scrollTop =
                        clampScrollTop(p.rows,
                                       IF targetScroll > 0 THEN targetScroll ELSE 0)]
            ELSE p

\* The panel's content box as init() renders it: no prompts, no rows, not
\* scrolled. History: the last event, the row it revealed and the offset
\* the reveal found.
BandInit ==
    /\ tree = [rows |-> 0, prompts |-> 0, lastRow |-> 0, scrollTop |-> 0]
    /\ out = [event |-> "none", row |-> 0, before |-> 0]

\* the user scrolls the panel
PanelWheel ==
    /\ \E delta \in {0 - WheelPx, WheelPx} :
          /\ clampScrollTop(tree.rows, tree.scrollTop + delta) # tree.scrollTop
          /\ tree' = [tree EXCEPT !.scrollTop = clampScrollTop(tree.rows, @ + delta)]
    /\ out' = [event |-> "wheel", row |-> 0, before |-> tree.scrollTop]
    /\ UNCHANGED <<timerVars, navVars, panelVars>>

\* a click or a traversal step highlights an item and reveals its row
ScrollSidebarToItem ==
    /\ \E row \in 0..MaxPanelRows :
          /\ tree' = scrollSidebarToItem(tree, row)
          /\ out' = [event |-> "reveal", row |-> row, before |-> tree.scrollTop]
    /\ UNCHANGED <<timerVars, navVars, panelVars>>

\* OctoGPTSidebar.updatePrompts, as far as the content box sees it: render(),
\* then with more prompts than before the reveal of the latest
BandUpdatePrompts ==
    /\ \E layout \in Layouts :
          LET rendered == renderList(tree, layout)
          IN IF layout.prompts > tree.prompts /\ layout.prompts > 0
             THEN /\ tree' = scrollSidebarToLatestPrompt(rendered)
                  /\ out' = [event |-> "latest", row |-> layout.lastRow,
                             before |-> rendered.scrollTop]
             ELSE /\ tree' = rendered
                  /\ out' = [event |-> "render", row |-> 0,
                             before |-> tree.scrollTop]
    /\ UNCHANGED <<timerVars, navVars, panelVars>>

BandNext ==
    \/ PanelWheel
    \/ ScrollSidebarToItem
    \/ BandUpdatePrompts

InitBand == BandInit /\ IdleTimer /\ IdleNav /\ IdlePanel

SpecBand == InitBand /\ [][BandNext]_vars

\* C1: every burst of message-node notifications (each less than
\* debounceDelay after the previous one) gets exactly one extraction pass,
\* run by the debounce callback no earlier than debounceDelay after the
\* burst's last notification.
C1_OnePassPerBurst ==
    hist.lastRun.src = "debounce" =>
        /\ hist.lastRun.ran
        /\ hist.lastRun.since >= debounceDelay

\* C2: no timer callback armed before a URL change runs after it.
C2_NoStaleCallback ==
    hist.lastRun.src # "none" => hist.lastRun.schedGen = hist.lastRun.runGen

\* C11: an extraction pass run by a timer callback comes at least
\* minUpdateInterval after the extraction pass before it, whichever timer
\* ran it.
C11_PassesApart ==
    hist.lastRun.ran => hist.lastRun.gap >= minUpdateInterval

\* C12: the streaming poll callback never runs once the streaming signal
\* has gone.
C12_PollOnlyWhileStreaming ==
    ~hist.lastRun.cleared

\* C3: two extraction passes over the same tree and URL return prompt lists
\* of the same length with the same ids in the same order, whichever adapter
\* runs them.
C3_Idempotent ==
    out.passes >= 2 => idsOf(out.parser.prompts) = out.prevIds

\* a second pass returned two prompts, one with an index-based id
C3_Witness ==
    /\ out.passes >= 2
    /\ Len(out.parser.prompts) = 2
    /\ \E k \in 1..2 : out.parser.prompts[k].id.base = "prompt"
    /\ out.parser.prompts[1].timestamp = tree.clock - 1

\* C4: after the classification a prompt is a branch point iff it is edited,
\* it is in a branch iff an earlier prompt is edited, and its
\* branchStartIndex is then the index of the latest such prompt.
C4_LatestEditWins ==
    out.done =>
        /\ Len(out.prompts) = Len(tree.prompts)
        /\ \A j \in 1..Len(out.prompts) :
             LET edited == {i \in 1..(j - 1) : tree.prompts[i].isEdited}
             IN /\ Truthy(out.prompts[j], "isBranchPoint") <=> tree.prompts[j].isEdited
                /\ Truthy(out.prompts[j], "inBranch") <=> edited # {}
                /\ edited # {} =>
                     \E i \in edited :
                        /\ \A k \in edited : k <= i
                        /\ out.prompts[j].branchStartIndex = i - 1
                /\ edited = {} => "branchStartIndex" \notin DOMAIN out.prompts[j]

\* P0..P4 with P1 and P3 edited: P2 starts at 1, P4 at 3
C4_Witness ==
    /\ out.done
    /\ Len(out.prompts) = 5
    /\ {i \in 1..5 : tree.prompts[i].isEdited} = {2, 4}
    /\ out.prompts[3].branchStartIndex = 1
    /\ out.prompts[5].branchStartIndex = 3

\* C5: a traversal that stands on the last entry and is asked for the next
\* one, or stands on entry 0 and is asked for the previous one, stays where it
\* is: navigationIndex in the all-items mode, the active prompt in the
\* prompts-only mode.
C5_ClampAtBounds ==
    /\ nav.last.bound = "all" => nav.navigationIndex = nav.last.pre
    /\ nav.last.bound = "prompts" => nav.currentPromptIndex = nav.last.pre

\* a step past the last entry of a list of several entries was asked for
C5_Witness ==
    /\ nav.last.bound = "all"
    /\ nav.last.dir = 1
    /\ nav.last.pre > 0
    /\ nav.last.pre = Len(nav.flatNavigationList) - 1

\* C6: after a step to a heading (p, h) whose prompt p was collapsed, p is
\* expanded, the list holds all of p's headings again, and the entry at
\* navigationIndex is the heading (p, h).
C6_CollapseRelookup ==
    nav.last.target # NoItem =>
        LET p == nav.last.target.promptIndex
        IN /\ p \notin nav.collapsedPrompts
           /\ \A h \in 0..(nav.prompts[p + 1].headings - 1) :
                findIndexFrom(nav.flatNavigationList, p, h, 0) # -1
           /\ nav.navigationIndex >= 0
           /\ nav.navigationIndex < Len(nav.flatNavigationList)
           /\ nav.flatNavigationList[nav.navigationIndex + 1] = nav.last.target

\* the heading was reached and its index in the rebuilt list is another one
C6_Witness ==
    /\ nav.last.target # NoItem
    /\ nav.last.index # nav.navigationIndex
    /\ nav.flatNavigationList[nav.navigationIndex + 1] = nav.last.target

\* C7: the list an all-items step reads is the list buildNavigationList gives
\* for the prompts and the collapse set of that moment.
C7_ListIsBuild ==
    ~nav.last.stale

\* the elements of a container that count as matches of a tier
C8_Matches(level) ==
    {k \in 1..Len(tree.container.elems) :
        /\ tree.container.elems[k].level = level
        /\ tree.adapter = "claude" => ~tree.container.elems[k].inUser
        /\ tree.adapter = "gemini" => tree.container.content}

\* C8: the headings extracted from a response container are the matches of
\* one tier, the first of the adapter's order that has a match: all of them,
\* in document order, and no element of another tier.
C8_TierExclusive ==
    out.done =>
        LET order == headingLevels(tree.adapter)
            tiers == {i \in 1..Len(order) : C8_Matches(order[i]) # {}}
        IN IF tiers # {}
           THEN \E i \in tiers :
                  /\ \A k \in tiers : i <= k
                  /\ Len(out.headings) = Cardinality(C8_Matches(order[i]))
                  /\ \A h \in 1..Len(out.headings) :
                       /\ out.headings[h].level = order[i]
                       /\ out.headings[h].elem \in C8_Matches(order[i])
                       /\ out.headings[h].index = h - 1
                       /\ \A g \in 1..(h - 1) :
                            out.headings[g].elem < out.headings[h].elem
           ELSE LET strong == {k \in 1..Len(tree.container.elems) :
                                  /\ tree.container.elems[k].level = "strong"
                                  /\ ~tree.container.elems[k].inUser
                                  /\ tree.container.elems[k].lead}
                IN /\ tree.adapter # "claude" => out.headings = <<>>
                   /\ Len(out.headings) = IF tree.adapter = "claude"
                                          THEN Cardinality(strong) ELSE 0
                   /\ \A h \in 1..Len(out.headings) :
                        /\ out.headings[h].level = "strong"
                        /\ out.headings[h].elem \in strong

\* two elements of the first tier were returned and an element of a finer
\* tier, lying between them, was left out
C8_Witness ==
    /\ out.done
    /\ Len(out.headings) = 2
    /\ out.headings[2].elem = 3
    /\ out.headings[1].elem = 1
    /\ tree.container.elems[2].level \in {"h4", "h5"}
    /\ out.headings[1].level = "h3"

\* the nodes the primary selector matches
C9_Primary ==
    {i \in 1..Len(tree.nodes) : tree.nodes[i].user}

\* C9: when the primary selector matches nothing and the fallback finds N
\* user-like nodes, the pass returns N prompts, none of them read from a
\* node with a copy button, a busy flag or the assistant avatar.
C9_FallbackPrecedence ==
    (out.passes > 0 /\ out.parser.conversationId # "none" /\ C9_Primary = {}) =>
        /\ Len(out.parser.prompts) = Len(out.parser.candidates)
        /\ \A k \in 1..Len(out.parser.prompts) :
             LET node == tree.nodes[out.parser.prompts[k].element.src]
             IN ~(node.copy \/ node.busy \/ node.avatar)

\* the nodes the turn-container scan of the fallback accepts
C10_Turns ==
    {i \in 1..Len(tree.nodes) :
        /\ tree.nodes[i].turn
        /\ IF tree.adapter = "chatgpt"
           THEN ~tree.nodes[i].avatar /\ tree.nodes[i].content
           ELSE tree.nodes[i].user}

\* C10: the candidate elements of a pass come from one stage only; a
\* fallback stage is used only if the primary selector matched nothing, the
\* content-block stage only if the turn-container scan found nothing too.
C10_OneStage ==
    out.passes > 0 =>
        \A a \in 1..Len(out.parser.candidates) :
            /\ \A b \in 1..Len(out.parser.candidates) :
                 out.parser.candidates[a].stage = out.parser.candidates[b].stage
            /\ out.parser.candidates[a].stage # "primary" => C9_Primary = {}
            /\ out.parser.candidates[a].stage = "blocks" => C10_Turns = {}
            /\ tree.adapter = "gemini" => out.parser.candidates[a].stage = "primary"

\* a pass took its elements from the content blocks, on a tree that has turn
\* containers as well
C10_Witness ==
    /\ out.passes > 0
    /\ Len(out.parser.candidates) > 0
    /\ out.parser.candidates[1].stage = "blocks"
    /\ \E i \in 1..Len(tree.nodes) : tree.nodes[i].turn

\* C16: every prompt-list update leaves the active prompt index and the
\* traversal index both at -1.
C16_UpdateResetsIndices ==
    [][UpdatePrompts =>
          nav'.currentPromptIndex = -1 /\ nav'.navigationIndex = -1]_vars

\* C13: the host container has a right margin only while the panel is
\* pinned and visible; an unpinned panel, hidden or shown on hover, dragged
\* or just unpinned, leaves the margin empty.
C13_MarginOnlyPinnedVisible ==
    panel.marginRight # 0 => panel.isPinned /\ panel.isVisible

\* C14: once an unpinned panel is shown and the pointer is outside both
\* the panel and the trigger slab with no drag under way, the panel gets
\* hidden unless the pointer comes back, the panel is pinned or the page
\* is unloaded - whether the pointer left from the panel, from the slab
\* without entering the panel, or left the panel during a drag that has
\* ended since.
C14_HiddenAfterLeave ==
    [](  (~panel.isPinned /\ panel.isVisible /\ panel.pointer = "outside"
            /\ ~panel.isResizing /\ ~panel.destroyed)
      => <>(~panel.isVisible \/ panel.pointer # "outside" \/ panel.isPinned
              \/ panel.destroyed))

\* The content states the panel's DOM displays
C15_Displayed ==
    {x \in {"new-conversation", "loading", "empty", "list"} :
        \/ x = "loading" /\ panel.loadingDisplay # "none"
        \/ x = "new-conversation" /\ panel.emptyDisplay # "none"
              /\ panel.emptyText = "Start a conversation to see prompts here"
        \/ x = "empty" /\ panel.emptyDisplay # "none"
              /\ panel.emptyText = "No prompts found"
        \/ x = "list" /\ panel.listDisplay # "none"}

\* C15: the panel displays exactly one content state, the first that
\* applies of: the new-conversation message (new chat, no prompts), the
\* loading spinner (loading, no prompts), the empty fallback (no prompts),
\* the prompt list.
C15_OneContentState ==
    C15_Displayed =
        {IF panel.isNewChat /\ panel.sidebarPrompts = 0 THEN "new-conversation"
         ELSE IF panel.isLoading /\ panel.sidebarPrompts = 0 THEN "loading"
         ELSE IF panel.sidebarPrompts = 0 THEN "empty"
         ELSE "list"}

\* A render has found the new-chat flag and the loading flag both set
C15_Witness ==
    /\ ~panel.fresh
    /\ panel.isNewChat /\ panel.isLoading /\ panel.sidebarPrompts = 0
    /\ panel.emptyDisplay = "block"

\* C17: the panel's width is within [minWidth, maxWidth] in every state,
\* whatever width the store held at load and wherever a drag moved the
\* pointer.
C17_WidthInRange ==
    panel.width >= minWidth /\ panel.width <= maxWidth

\* A drag to the left of the minimum has been clamped to minWidth
C17_Witness ==
    /\ panel.isResizing
    /\ panel.width = minWidth
    /\ store.sidebarWidth # minWidth

\* C18: between the start of a drag and its release no step writes the
\* width to the store.
C18_NoWidthWriteDuringDrag ==
    [][panel.isResizing /\ panel'.isResizing =>
          /\ Has(store', "sidebarWidth") = Has(store, "sidebarWidth")
          /\ store'.sidebarWidth = store.sidebarWidth]_vars

\* C19: saving the panel's settings and loading them into a new panel
\* gives the same pin flag, width and scroll duration, in every state.
C19_SaveLoadRoundTrip ==
    LET q == loadState(OctoGPTSidebar, saveState(panel, store, FALSE), FALSE)
    IN /\ q.isPinned = panel.isPinned
       /\ q.width = panel.width
       /\ q.scrollDuration = panel.scrollDuration

\* A panel whose three settings all differ from the defaults
C19_Witness ==
    /\ ~panel.fresh
    /\ panel.isPinned
    /\ panel.width = minWidth
    /\ panel.scrollDuration = maxScrollDuration

\* C20: after a load the pin flag is the stored one, or false when absent;
\* the width is the stored one, or 200 when absent or outside [120, 400];
\* the scroll duration is the stored one, or 100 when absent or outside
\* [0, 600]; each on its own. When the read fails all three are the
\* defaults.
C20_LoadFallbacks ==
    panel.fresh =>
        IF panel.readFailed
        THEN /\ panel.isPinned = FALSE
             /\ panel.width = 200
             /\ panel.scrollDuration = 100
        ELSE /\ panel.isPinned =
                   (IF Has(store, "sidebarPinned") THEN store.sidebarPinned ELSE FALSE)
             /\ panel.width =
                   (IF /\ Has(store, "sidebarWidth")
                       /\ store.sidebarWidth \in 120..400
                    THEN store.sidebarWidth ELSE 200)
             /\ panel.scrollDuration =
                   (IF /\ Has(store, "scrollDuration")
                       /\ store.scrollDuration \in 0..600
                    THEN store.scrollDuration ELSE 100)

\* A load that found a width out of range beside a valid scroll duration
C20_Witness ==
    /\ panel.fresh /\ ~panel.readFailed
    /\ Has(store, "sidebarWidth") /\ store.sidebarWidth > maxWidth
    /\ Has(store, "scrollDuration") /\ store.scrollDuration = maxScrollDuration
    /\ panel.width = defaultWidth
    /\ panel.scrollDuration = maxScrollDuration

\* C21: a prompt is marked edited only when its turn has an enabled
\* version navigator: an enabled previous or next button and a counter
\* that parses.
C21_EditedNeedsEnabledNavigator ==
    (out.done /\ out.isEdited) =>
        /\ tree.navigator.prev = "enabled" \/ tree.navigator.next = "enabled"
        /\ matchCounter(tree.navigator.counter, 1) # <<>>

\* C22: a branch info holds the reference of the previous (next) button
\* only if that button was enabled when the info was extracted.
C22_RefsOnlyEnabled ==
    out.done =>
        /\ out.branchInfo.prevButton # NoButton => tree.navigator.prev = "enabled"
        /\ out.branchInfo.nextButton # NoButton => tree.navigator.next = "enabled"

\* A branch info with the reference of the enabled next button beside a
\* disabled previous button
C22_Witness ==
    /\ out.done
    /\ tree.navigator.prev = "disabled" /\ tree.navigator.next = "enabled"
    /\ out.branchInfo.prevButton = NoButton
    /\ out.branchInfo.nextButton = "next"
    /\ out.branchInfo.total = 2

\* destroy() has run on the sidebar setup() created: the page is being
\* unloaded
Unloading == (octo.awaitingInit \/ octo.isInitialized) /\ ~octo.sidebar

\* A timer is armed when the clock of the model stops, or the page is being
\* unloaded
TimerPendingAtEnd ==
    \/ Unloading
    \/ /\ now = StartTime + TimeSpan
       /\ \/ Armed(octo.debounceTimer)
          \/ Armed(octo.streamingPollTimer)
          \/ octo.waitLoops # {}

\* The URL changed to a conversation and no extraction pass has run at the
\* new location
SwitchedUnextracted ==
    /\ hist.navGen > 0
    /\ ~isNewChatUrl(pathname)
    /\ octo.extractedFor # pathname

\* C23: after a URL change to another conversation an extraction pass for
\* the new conversation eventually runs, replacing the prompts of the
\* conversation before, whether or not a mutation notification follows.
C23_SwitchExtracts ==
    SwitchedUnextracted ~> (octo.extractedFor = pathname \/ TimerPendingAtEnd)

\* The check of waitForPromptsOrNewChat that reaches maxWait is due on a
\* conversation page that shows no prompt
PromptsTimeoutDue ==
    /\ ~isNewChatUrl(pathname)
    /\ extractedCount(pathname) = 0
    /\ \E w \in DueLoops : w.kind = "prompts" /\ now - w.start > promptsMaxWait

\* A timer is armed when the clock of the wait loops stops
TimerPendingAtWaitEnd ==
    /\ now = StartTime + WaitSpan
    /\ Armed(octo.debounceTimer) \/ octo.waitLoops # {}

\* C24: when the wait loop of a conversation page times out with no prompt
\* found, the panel leaves the loading display.
C24_LoadingEnds ==
    PromptsTimeoutDue ~> (~octo.isLoading \/ TimerPendingAtWaitEnd)

\* C25: the new-chat flag becomes true only at a new-chat URL, never
\* because a wait loop reached its maxWait on a conversation page.
C25_NewChatOnlyAtNewChatUrl ==
    [][(~octo.isNewChat /\ octo'.isNewChat) => isNewChatUrl(pathname')]_vars

\* A wait loop timed out on a conversation page without setting the flag,
\* and the flag was set when the page then went to a new-chat URL
C25_Witness ==
    /\ octo.isNewChat /\ isNewChatUrl(pathname)
    /\ hist.navGen = 1
    /\ hist.lastRun.src = "prompts" /\ hist.lastRun.runGen = 0
    /\ octo.prompts = 0 /\ octo.waitLoops = {}

\* C26: a pass run where no conversation id can be read from the URL
\* returns the empty list, whatever the tree holds.
C26_NoConversationNoPrompts ==
    (out.passes > 0 /\ conversationIdOf(tree.adapter, tree.pathname) = "none")
        => out.parser.prompts = <<>>

\* A pass at a URL without a conversation id, over a tree with user
\* messages that the pass before (at a conversation URL) returned
C26_Witness ==
    /\ out.passes > 0
    /\ conversationIdOf(tree.adapter, tree.pathname) = "none"
    /\ findUserElements(tree.adapter, tree.nodes) # <<>>
    /\ out.prevIds # <<>>
    /\ out.parser.prompts = <<>>

\* C27: an error raised while one candidate is extracted does not end the
\* pass: the prompts returned are those of the candidates that raise no
\* error and have text, in document order.
C27_ErrorSkipsOneNode ==
    (out.passes > 0 /\ out.parser.conversationId # "none") =>
        [k \in 1..Len(out.parser.prompts) |-> out.parser.prompts[k].element]
            = SelectSeq(out.parser.candidates,
                        LAMBDA c : /\ ~tree.nodes[c.src].throws
                                   /\ Len(trim(getMessageText(tree.nodes[c.src]))) > 0)

\* A pass over a tree whose first candidate raises an error and whose
\* second gives the only prompt returned
C27_Witness ==
    /\ out.passes > 0
    /\ Len(out.parser.candidates) = 2
    /\ tree.nodes[out.parser.candidates[1].src].throws
    /\ Len(out.parser.prompts) = 1
    /\ out.parser.prompts[1].element = out.parser.candidates[2]
    /\ out.parser.prompts[1].index = 1

\* C28: a prompt click or traversal step whose target node is detached
\* (or, for a heading, cannot be re-resolved) starts no scroll of the main
\* viewport.
C28_NoScrollToStaleTarget ==
    nav.seen.stale => nav.scroll = NoItem

\* A traversal step that moved to a heading findHeadingElement does not find
\* again, and started no scroll
C28_Witness ==
    /\ nav.seen.stale
    /\ nav.navigationIndex >= 0
    /\ nav.flatNavigationList[nav.navigationIndex + 1].type = "heading"
    /\ nav.last.bound = "none"
    /\ nav.scroll = NoItem

\* The entries of a list (0-based) whose node is live and no farther from
\* the viewport's centre c than any other live entry's
ClosestLive(prompts, list, live, c) ==
    {i \in 0..(Len(list) - 1) :
        /\ isConnected(live, list[i + 1])
        /\ \A j \in 0..(Len(list) - 1) :
              isConnected(live, list[j + 1]) =>
                 Abs(centerOf(prompts, list[i + 1]) - c)
                    <= Abs(centerOf(prompts, list[j + 1]) - c)}

\* C29: the first step of a traversal (no position yet) starts from an entry
\* whose live node is closest to the viewport's centre and moves one entry
\* from there, staying on the start where the step would leave the list.
C29_SyncToViewport ==
    out.done =>
        LET prompts == tree.sidebar.prompts
            list  == IF tree.mode = "all"
                     THEN buildNavigationList(prompts, tree.sidebar.collapsedPrompts)
                     ELSE [p \in 1..Len(prompts) |-> PromptItem(p - 1)]
            start == ClosestLive(prompts, list, tree.page.live, tree.page.c)
        IN start # {} =>
            \E i \in start :
               IF tree.mode = "all"
               THEN out.sidebar.navigationIndex =
                       IF inRange(i + tree.dir, Len(list))
                       THEN i + tree.dir ELSE i
               ELSE out.sidebar.currentPromptIndex =
                       IF /\ inRange(i + tree.dir, Len(list))
                          /\ (i + tree.dir) \in tree.page.live.prompts
                       THEN i + tree.dir ELSE -1

\* C30: on an unchanged tree, re-resolving a heading record by its level,
\* turnId and index gives the element the record was extracted from.
C30_ResolveRoundTrip ==
    \A k \in 1..Len(out.resolved) : out.resolved[k] = out.headings[k].elem

\* C35: a pinned panel is visible in every reachable state, whatever the
\* interleaving of pointer enter and leave, the hover grace timer, pin
\* toggles and resize drags; a grace timer started while unpinned does not
\* hide the panel after it has been pinned.
C35_PinnedIsVisible ==
    panel.isPinned => panel.isVisible

\* C31: the scroll animation ends at its target. With duration 0 the reveal
\* assigns the target to the viewport offset in the same step and requests
\* no frame; with a duration d > 0 a frame callback asks for another frame
\* exactly while elapsed < d, and the callback of the first frame with
\* elapsed >= d writes the target.
C31_AnimationEndsAtTarget ==
    /\ out.instant =>
          /\ tree.scrollTop = out.target
          /\ Len(tree.callbacks) = out.pending
    /\ \A i \in DOMAIN out.writes :
          LET w     == out.writes[i]
              again == \E k \in DOMAIN tree.callbacks :
                          tree.callbacks[k].id = w.id
          IN /\ w.duration > 0
             /\ again <=> w.elapsed < w.duration
             /\ w.elapsed >= w.duration => w.value = w.target

\* C39: after several reveals in succession, with the scroll duration
\* possibly changed between them, the viewport offset is the target of the
\* most recent reveal once no frame callback is pending, and no animation
\* writes the offset after a later request has reached its target.
C39_LastRevealWins ==
    /\ (out.requests > 0 /\ tree.callbacks = <<>>) => tree.scrollTop = out.target
    /\ \A i \in DOMAIN out.writes :
          \A r \in out.reachedBefore : r <= out.writes[i].id

\* C32: revealing an item in the panel, be it the item a click or a
\* traversal step highlights or the latest prompt after a prompt-list
\* update, leaves the panel's scroll offset as it was when the item's row
\* lies fully inside the visible band; the offset changes only when the
\* row's top is above the band or its bottom below it.
C32_VisibleRowKeepsOffset ==
    out.event \in {"reveal", "latest"} =>
       LET top    == out.row * 2 * RowHalf - out.before
           bottom == top + 2 * RowHalf
       IN /\ (top >= 0 /\ bottom <= 2 * BandHalf) => tree.scrollTop = out.before
          /\ tree.scrollTop # out.before => (top < 0 \/ bottom > 2 * BandHalf)

\* C33: the collapse-set is carried across extraction passes, keyed by
\* prompt index: a prompt-list update leaves it as it was, except that the
\* index of a prompt of the new list that is generating and has headings is
\* removed when the list is rendered.
C33_CollapseSetCarried ==
    [][UpdatePrompts =>
          nav'.collapsedPrompts =
             {p \in nav.collapsedPrompts :
                 ~(/\ p < Len(nav'.prompts)
                   /\ nav'.prompts[p + 1].isGenerating
                   /\ nav'.prompts[p + 1].headings > 0)}]_vars

\* the list was replaced by a shorter one and the set still holds an index
\* past its end, next to the index of a prompt that is still there
C33_Witness ==
    /\ nav.last = NoEvent
    /\ Len(nav.prompts) > 0
    /\ \E p \in nav.collapsedPrompts : p >= Len(nav.prompts)
    /\ \E p \in nav.collapsedPrompts : p < Len(nav.prompts)

\* C37: the active prompt index is -1 or an index of the current prompt
\* list, also after the list was replaced by a shorter one.
C37_ActiveIndexValid ==
    \/ nav.currentPromptIndex = -1
    \/ /\ nav.currentPromptIndex >= 0
       /\ nav.currentPromptIndex < Len(nav.prompts)

\* C38: the two traversal cursors agree: whenever navigationIndex is not -1
\* and an active prompt is set, the entry of flatNavigationList at
\* navigationIndex belongs to the active prompt.
C38_CursorsAgree ==
    (nav.navigationIndex # -1 /\ nav.currentPromptIndex # -1) =>
        /\ nav.navigationIndex < Len(nav.flatNavigationList)
        /\ nav.flatNavigationList[nav.navigationIndex + 1].promptIndex
              = nav.currentPromptIndex

\* C34: the prompt ids of one extraction pass are pairwise distinct, for
\* every adapter, whether an id comes from a stable key of the page or from
\* the index fallback.
C34_IdsUnique ==
    \A i, j \in 1..Len(out.parser.prompts) :
        out.parser.prompts[i].id = out.parser.prompts[j].id => i = j

\* C40: the new-conversation flag and the loading flag are never both true:
\* they are not after the constructor, and no setLoadingState, setNewChat or
\* updatePrompts call, in any order and with any argument, makes them so.
C40_NewChatNotLoading ==
    /\ ~(panel.isNewChat /\ panel.isLoading)
    /\ [][(/\ SetLoadingState \/ SetNewChat \/ UpdatePromptCount
           /\ ~(panel.isNewChat /\ panel.isLoading))
          => ~(panel'.isNewChat /\ panel'.isLoading)]_vars

\* the new-conversation state, reached from the loading state
C40_Witness ==
    /\ panel.isNewChat
    /\ ~panel.isLoading
    /\ panel.loadingState = "null"
    /\ panel.emptyText # "No prompts found"

\* A message-node notification has arrived and no extraction pass has run
\* since
NotifiedUnextracted ==
    /\ hist.lastNotify >= 0
    /\ octo.lastUpdateTime <= hist.lastNotify

\* C36: no update is lost: after a message-node mutation notification that
\* no other one follows an extraction pass eventually runs, also when the
\* pass before ran less than minUpdateInterval before the debounce timer
\* fires.
C36_NoUpdateLost ==
    NotifiedUnextracted ~> (octo.lastUpdateTime > hist.lastNotify \/ TimerPendingAtEnd)

====
